---- MODULE Spec2Model ----
(***************************************************************************)
(* A model of the spyTrade indicator-and-signal pipeline.                  *)
(*                                                                         *)
(* Numbers.  The program computes with Python floats; the model computes   *)
(* with integers in fixed units, chosen so that every quantity a property  *)
(* reads is exact:                                                         *)
(*   - a price (open, high, low, close, sma, band, atr) is a whole number  *)
(*     of price units;                                                     *)
(*   - a factor score is held in hundredths of a point (ScoreUnit);        *)
(*   - sentiment and prediction, in [-1,1], are held in hundredths         *)
(*     (-100..100);                                                        *)
(*   - total_confidence is held in 1/10000 of a point (ConfUnit);          *)
(*   - stop_loss and take_profit are held in hundredths of a price unit    *)
(*     (RiskUnit), so that atr*1.5 and entry*0.98 are whole numbers.       *)
(*   - an RSI value is an exact fraction <<num, den>> with den > 0.        *)
(* Comparisons of ratios are made by cross-multiplication.  Where the      *)
(* program divides and the quotient is kept as a value (the means behind   *)
(* sma, atr and the bands, the ema recurrence, the standard deviation),    *)
(* the model rounds down to a whole price unit.                            *)
(*                                                                         *)
(* An Optional[x] is None (the empty tuple) or Some(x) (a 1-tuple).        *)
(*                                                                         *)
(* Programs.  main.py (SpyTradeApp) and the web server (app.py) are the    *)
(* two ways the pipeline is run; SpecApp follows either.  There the data   *)
(* of an update is the number of the fetch that returned it: the k-th      *)
(* fetch yields candles k, indicators k, sentiment k and signal k, so an   *)
(* entry or an answer put together from two updates shows.                 *)
(***************************************************************************)
EXTENDS Integers, Sequences, FiniteSets, TLC

\* ------------------------------------------------------------------ bounds
MaxCandles == 6
MaxPrice == 3
MaxLen == 6
MaxPeriod == 3

\* ------------------------------------------------------------------ units
ScoreUnit == 100
ConfUnit == 10000
RiskUnit == 100

\* ------------------------------------------------------------------ config
RSI_OVERBOUGHT == 70
RSI_OVERSOLD == 30
CONFIDENCE_THRESHOLD == 60

\* ------------------------------------------------------------------ Optional
None == <<>>
Some(x) == <<x>>
IsNone(o) == o = None
Val(o) == o[1]

\* Python truthiness of an Optional[float]: None and 0.0 are both falsy.
Truthy(o) == ~IsNone(o) /\ Val(o) # 0

Abs(x) == IF x < 0 THEN -x ELSE x

Max(a, b) == IF a >= b THEN a ELSE b

\* An exact fraction num/den (den > 0) and its comparisons with a whole number.
Frac(num, den) == <<num, den>>
FracLess(f, n) == f[1] < n * f[2]
FracMore(f, n) == f[1] > n * f[2]

RECURSIVE SumSeq(_)
SumSeq(xs) == IF xs = <<>> THEN 0 ELSE xs[1] + SumSeq(Tail(xs))

\* xs[-n:] for 0 < n <= Len(xs)
LastN(xs, n) == SubSeq(xs, Len(xs) - n + 1, Len(xs))

\* np.mean, rounded down to a whole unit
Mean(xs) == SumSeq(xs) \div Len(xs)

\* The integer square root: the largest r with r*r <= n.
RECURSIVE IsqrtBetween(_, _, _)
IsqrtBetween(n, lo, hi) ==
    IF lo >= hi THEN lo
    ELSE LET mid == (lo + hi + 1) \div 2
         IN  IF mid * mid <= n THEN IsqrtBetween(n, mid, hi)
                               ELSE IsqrtBetween(n, lo, mid - 1)

Isqrt(n) == IsqrtBetween(n, 0, 46340)

\* ------------------------------------------------------------------ data
Candle(o, h, l, c) == [open |-> o, high |-> h, low |-> l, close |-> c]

\* The fields in the dataclass's order: rsi, macd, macd_signal, macd_histogram,
\* sma_20, sma_50, bollinger_upper, bollinger_middle, bollinger_lower, atr.
TechnicalIndicators(rsi, macd, sig, hist, sma_20, sma_50, upper, middle, lower, atr) ==
    [rsi |-> rsi, macd |-> macd, macd_signal |-> sig,
     macd_histogram |-> hist, sma_20 |-> sma_20, sma_50 |-> sma_50,
     bollinger_upper |-> upper, bollinger_middle |-> middle,
     bollinger_lower |-> lower, atr |-> atr]

NoIndicators ==
    TechnicalIndicators(None, None, None, None, None, None, None, None, None, None)

\* ------------------------------------------------------------------ price action
\* The empty dict returned for fewer than 3 candles.
EmptyDict == [empty |-> TRUE]

\* body_percent = body_size / total_range * 100, in hundredths of a percent
\* (rounded down); 0 when total_range is not positive.
BodyPercent(body_size, total_range) ==
    IF total_range > 0 THEN (body_size * 100 * ScoreUnit) \div total_range ELSE 0

\* Mutant of is_bearish: a close equal to the open counts as bearish.
is_bearish_OrEqual(last_candle) == last_candle.close <= last_candle.open

is_bullish(last_candle) == last_candle.close > last_candle.open
is_bearish(last_candle) == last_candle.close < last_candle.open

\* Mutant of patterns: the lower wick is measured from the open whatever the
\* candle's direction.
patterns_OpenWick(last_candle) ==
    LET body_size   == Abs(last_candle.close - last_candle.open)
        total_range == last_candle.high - last_candle.low
        pctLess(n)  == IF total_range > 0 THEN body_size * 100 < n * total_range
                                          ELSE 0 < n
        pctMore(n)  == IF total_range > 0 THEN body_size * 100 > n * total_range
                                          ELSE 0 > n
        lower_wick  == last_candle.open - last_candle.low
        upper_wick  == IF is_bearish(last_candle)
                       THEN last_candle.high - last_candle.open
                       ELSE last_candle.high - last_candle.close
    IN  (IF pctLess(10) /\ total_range > body_size * 2 THEN {"doji"} ELSE {})
        \cup (IF pctLess(20) /\ lower_wick > body_size * 2 THEN {"hammer"} ELSE {})
        \cup (IF pctLess(20) /\ upper_wick > body_size * 2
                 THEN {"shooting_star"} ELSE {})
        \cup (IF pctMore(70) THEN {"strong_candle"} ELSE {})

\* The pattern tags of the last candle (lines 207-226), as a set.
patterns(last_candle) ==
    LET body_size   == Abs(last_candle.close - last_candle.open)
        total_range == last_candle.high - last_candle.low
        \* body_percent < n  and  body_percent > n, decided exactly
        pctLess(n)  == IF total_range > 0 THEN body_size * 100 < n * total_range
                                          ELSE 0 < n
        pctMore(n)  == IF total_range > 0 THEN body_size * 100 > n * total_range
                                          ELSE 0 > n
        lower_wick  == IF is_bullish(last_candle)
                       THEN last_candle.open - last_candle.low
                       ELSE last_candle.close - last_candle.low
        upper_wick  == IF is_bearish(last_candle)
                       THEN last_candle.high - last_candle.open
                       ELSE last_candle.high - last_candle.close
    IN  (IF pctLess(10) /\ total_range > body_size * 2 THEN {"doji"} ELSE {})
        \cup (IF pctLess(20) /\ lower_wick > body_size * 2 THEN {"hammer"} ELSE {})
        \cup (IF pctLess(20) /\ upper_wick > body_size * 2
                 THEN {"shooting_star"} ELSE {})
        \cup (IF pctMore(70) THEN {"strong_candle"} ELSE {})

\* Mutant of trend_type: an equal high or low still counts as higher or lower.
trend_type_NonStrict(last_candle, prev_candle) ==
    IF last_candle.high >= prev_candle.high /\ last_candle.low >= prev_candle.low
    THEN "uptrend"
    ELSE IF last_candle.high <= prev_candle.high /\ last_candle.low <= prev_candle.low
    THEN "downtrend"
    ELSE "ranging"

\* Lines 228-240.
trend_type(last_candle, prev_candle) ==
    LET higher_high == last_candle.high > prev_candle.high
        higher_low  == last_candle.low > prev_candle.low
        lower_high  == last_candle.high < prev_candle.high
        lower_low   == last_candle.low < prev_candle.low
    IN  IF higher_high /\ higher_low THEN "uptrend"
        ELSE IF lower_high /\ lower_low THEN "downtrend"
        ELSE "ranging"

\* Mutant of close_position: 0, not 0.5, for a candle without range.
close_position_ZeroDefault(last_candle) ==
    IF last_candle.high - last_candle.low > 0
    THEN Frac(last_candle.close - last_candle.low, last_candle.high - last_candle.low)
    ELSE Frac(0, 1)

\* (close - low) / total_range, else 0.5: an exact fraction.
close_position(last_candle) ==
    IF last_candle.high - last_candle.low > 0
    THEN Frac(last_candle.close - last_candle.low, last_candle.high - last_candle.low)
    ELSE Frac(1, 2)

analyze_price_action(candles) ==
    IF Len(candles) < 3 THEN EmptyDict
    ELSE
      LET last_candle == candles[Len(candles)]
          prev_candle == candles[Len(candles) - 1]
          body_size   == Abs(last_candle.close - last_candle.open)
          total_range == last_candle.high - last_candle.low
      IN  [empty |-> FALSE,
           is_bullish |-> is_bullish(last_candle),
           is_bearish |-> is_bearish(last_candle),
           body_percent |-> BodyPercent(body_size, total_range),
           patterns |-> patterns(last_candle),
           trend_type |-> trend_type(last_candle, prev_candle),
           close_position |-> close_position(last_candle)]

\* price_action.get('trend_type') == t
TrendIs(price_action, t) == ~price_action.empty /\ price_action.trend_type = t

\* ------------------------------------------------------------------ indicators
Closes(candles) == [i \in 1..Len(candles) |-> candles[i].close]

\* Mutant of Deltas: each difference taken backwards.
Deltas_Backward(prices) == [i \in 1..(Len(prices) - 1) |-> prices[i] - prices[i + 1]]

\* np.diff
Deltas(prices) == [i \in 1..(Len(prices) - 1) |-> prices[i + 1] - prices[i]]

\* np.where(deltas > 0, deltas, 0)
Gains(deltas) == [i \in 1..Len(deltas) |-> IF deltas[i] > 0 THEN deltas[i] ELSE 0]

\* Mutant of Losses: the negative deltas kept with their sign.
Losses_Signed(deltas) == [i \in 1..Len(deltas) |-> IF deltas[i] < 0 THEN deltas[i] ELSE 0]

\* np.where(deltas < 0, -deltas, 0)
Losses(deltas) == [i \in 1..Len(deltas) |-> IF deltas[i] < 0 THEN -deltas[i] ELSE 0]

\* avg_gain = G/period and avg_loss = L/period, G and L the sums over the last
\* `period` deltas: avg_loss = 0 iff L = 0, avg_gain > 0 iff G > 0, and
\* 100 - 100/(1 + avg_gain/avg_loss) = 100*G/(G + L).
calculate_rsi(prices, period) ==
    IF Len(prices) < period + 1 THEN None
    ELSE LET deltas == Deltas(prices)
             G == SumSeq(LastN(Gains(deltas), period))
             L == SumSeq(LastN(Losses(deltas), period))
         IN  IF L = 0 THEN (IF G > 0 THEN Some(Frac(100, 1)) ELSE Some(Frac(50, 1)))
             ELSE Some(Frac(100 * G, G + L))

\* ema[i] = prices[i]*k + ema[i-1]*(1-k), k = 2/(period+1)
RECURSIVE EmaFrom(_, _, _, _)
EmaFrom(prices, period, i, ema) ==
    IF i > Len(prices) THEN ema
    ELSE EmaFrom(prices, period, i + 1,
                 Append(ema, (2 * prices[i] + (period - 1) * ema[i - 1]) \div (period + 1)))

_ema(prices, period) ==
    IF Len(prices) < period THEN <<>>
    ELSE EmaFrom(prices, period, 2, <<Mean(SubSeq(prices, 1, period))>>)

\* An exception leaving a function, in place of its result.
Raised(exception) == <<"raise", exception>>
IsRaised(result) == Len(result) = 2 /\ result[1] = "raise"

\* <<macd, signal, histogram>>.  ema_fast - ema_slow subtracts two arrays: of
\* equal length elementwise; an empty ema_fast (fewer than `fast` prices)
\* against one element gives an empty array, against more a ValueError.
calculate_macd(prices, fast, slow, signal) ==
    IF Len(prices) < slow THEN <<None, None, None>>
    ELSE LET ema_fast  == _ema(prices, fast)
             ema_slow  == _ema(prices, slow)
             macd_line == IF Len(ema_fast) = Len(ema_slow)
                          THEN [i \in 1..Len(prices) |-> ema_fast[i] - ema_slow[i]]
                          ELSE <<>>
         IN  IF Len(ema_fast) # Len(ema_slow) /\ Len(ema_slow) # 1
             THEN Raised("ValueError")
             ELSE IF Len(macd_line) < signal THEN <<None, None, None>>
             ELSE LET signal_line == _ema(macd_line, signal)
                      n == Len(macd_line)
                  IN  <<Some(macd_line[n]), Some(signal_line[n]),
                        Some(macd_line[n] - signal_line[n])>>

\* Mutant of calculate_sma: a series of exactly `period` prices is too short.
calculate_sma_Strict(prices, period) ==
    IF Len(prices) <= period THEN None ELSE Some(Mean(LastN(prices, period)))

calculate_sma(prices, period) ==
    IF Len(prices) < period THEN None ELSE Some(Mean(LastN(prices, period)))

\* np.std: the population standard deviation
Std(xs) ==
    LET m == Mean(xs)
    IN  Isqrt(SumSeq([i \in 1..Len(xs) |-> (xs[i] - m) * (xs[i] - m)]) \div Len(xs))

\* Mutant of calculate_bollinger_bands: the window is the first `period`
\* prices, prices[:period].
calculate_bollinger_bands_Head(prices, period, std_dev) ==
    IF Len(prices) < period THEN <<None, None, None>>
    ELSE LET window == SubSeq(prices, 1, period)
             middle == Mean(window)
             std    == Std(window)
         IN  <<Some(middle + std * std_dev), Some(middle), Some(middle - std * std_dev)>>

\* <<upper, middle, lower>>; std_dev is the width multiplier
calculate_bollinger_bands(prices, period, std_dev) ==
    IF Len(prices) < period THEN <<None, None, None>>
    ELSE LET window == LastN(prices, period)
             middle == Mean(window)
             std    == Std(window)
         IN  <<Some(middle + std * std_dev), Some(middle), Some(middle - std * std_dev)>>

TrueRange(candle, prev_close) ==
    Max(candle.high - candle.low,
        Max(Abs(candle.high - prev_close), Abs(candle.low - prev_close)))

calculate_atr(candles, period) ==
    IF Len(candles) < period + 1 THEN None
    ELSE LET true_ranges ==
                 [i \in 1..(Len(candles) - 1) |->
                     TrueRange(candles[i + 1], candles[i].close)]
         IN  Some(Mean(LastN(true_ranges, period)))

\* The default arguments of the indicator functions.
RSI_DEFAULT_PERIOD == 14
MACD_DEFAULT_FAST == 12
MACD_DEFAULT_SLOW == 26
MACD_DEFAULT_SIGNAL == 9
BB_DEFAULT_PERIOD == 20
BB_DEFAULT_STD_DEV == 2
ATR_DEFAULT_PERIOD == 14

calculate_all_indicators(candles) ==
    IF Len(candles) = 0 THEN NoIndicators
    ELSE LET prices == Closes(candles)
             macd   == calculate_macd(prices, MACD_DEFAULT_FAST, MACD_DEFAULT_SLOW,
                                      MACD_DEFAULT_SIGNAL)
             bb     == calculate_bollinger_bands(prices, BB_DEFAULT_PERIOD,
                                                 BB_DEFAULT_STD_DEV)
         IN  TechnicalIndicators(
                 calculate_rsi(prices, RSI_DEFAULT_PERIOD),
                 macd[1], macd[2], macd[3],
                 calculate_sma(prices, 20),
                 calculate_sma(prices, 50),
                 bb[1], bb[2], bb[3],
                 calculate_atr(candles, ATR_DEFAULT_PERIOD))

\* ------------------------------------------------------------------ factor scores
\* Each _analyze_* returns its score (in ScoreUnit) and what it appended to
\* indicators_used.
Scored(points, used) == [score |-> points * ScoreUnit, used |-> used]

_analyze_rsi(indicators) ==
    IF IsNone(indicators.rsi) THEN Scored(50, <<>>)
    ELSE LET rsi == Val(indicators.rsi)
         IN  IF FracLess(rsi, RSI_OVERSOLD) THEN Scored(75, <<"RSI">>)
             ELSE IF FracLess(rsi, 40) THEN Scored(60, <<"RSI">>)
             ELSE IF FracMore(rsi, RSI_OVERBOUGHT) THEN Scored(25, <<"RSI">>)
             ELSE IF FracMore(rsi, 60) THEN Scored(40, <<"RSI">>)
             ELSE Scored(50, <<"RSI">>)

_analyze_macd(indicators) ==
    IF IsNone(indicators.macd) \/ IsNone(indicators.macd_signal) THEN Scored(50, <<>>)
    ELSE LET macd      == Val(indicators.macd)
             signal    == Val(indicators.macd_signal)
             histogram == IF Truthy(indicators.macd_histogram)
                             THEN Val(indicators.macd_histogram)
                             ELSE macd - signal
         IN  IF histogram > 0 /\ macd > signal THEN Scored(65, <<"MACD">>)
             ELSE IF histogram < 0 /\ macd < signal THEN Scored(35, <<"MACD">>)
             ELSE Scored(50, <<"MACD">>)

_analyze_price_action(price_action) ==
    IF price_action.empty THEN Scored(50, <<>>)
    ELSE LET pa == price_action
             s1 == 50 + (IF pa.is_bullish THEN 10 ELSE 0)
                      - (IF pa.is_bearish THEN 10 ELSE 0)
             s2 == IF "strong_candle" \in pa.patterns /\ pa.is_bullish THEN s1 + 15
                   ELSE IF "strong_candle" \in pa.patterns /\ pa.is_bearish THEN s1 - 15
                   ELSE s1
             s3 == s2 + (IF "hammer" \in pa.patterns THEN 10 ELSE 0)
                      - (IF "shooting_star" \in pa.patterns THEN 10 ELSE 0)
             s4 == IF pa.trend_type = "uptrend" THEN s3 + 10
                   ELSE IF pa.trend_type = "downtrend" THEN s3 - 10
                   ELSE s3
         IN  Scored(s4, <<"Price_Action">>)

_analyze_moving_averages(current_price, indicators) ==
    IF IsNone(indicators.sma_20) \/ IsNone(indicators.sma_50) THEN Scored(50, <<>>)
    ELSE LET sma_20 == Val(indicators.sma_20)
             sma_50 == Val(indicators.sma_50)
             base   == IF sma_20 > sma_50 THEN 60
                       ELSE IF sma_20 < sma_50 THEN 40
                       ELSE 50
             score  == IF current_price > sma_20 /\ sma_20 > sma_50 THEN base + 10
                       ELSE IF current_price < sma_20 /\ sma_20 < sma_50 THEN base - 10
                       ELSE base
         IN  Scored(score, <<"MA">>)

_analyze_bollinger_bands(current_price, indicators) ==
    IF IsNone(indicators.bollinger_upper) \/ IsNone(indicators.bollinger_lower)
    THEN Scored(50, <<>>)
    ELSE LET upper       == Val(indicators.bollinger_upper)
             lower       == Val(indicators.bollinger_lower)
             total_range == upper - lower
             \* position = (current_price - lower) / total_range, else 0.5
             above08     == total_range > 0
                            /\ 10 * (current_price - lower) > 8 * total_range
             below02     == total_range > 0
                            /\ 10 * (current_price - lower) < 2 * total_range
         IN  IF above08 THEN Scored(35, <<"BB">>)
             ELSE IF below02 THEN Scored(65, <<"BB">>)
             ELSE Scored(50, <<"BB">>)

\* Mutant of _analyze_news_sentiment: the name is appended before the None test.
_analyze_news_sentiment_Always(sentiment_score) ==
    IF IsNone(sentiment_score) THEN Scored(50, <<"News_Sentiment">>)
    ELSE [score |-> 50 * ScoreUnit + (Val(sentiment_score) * 25 * ScoreUnit) \div 100,
          used |-> <<"News_Sentiment">>]

\* score = 50 + sentiment_score * 25, the sentiment held in hundredths
_analyze_news_sentiment(sentiment_score) ==
    IF IsNone(sentiment_score) THEN Scored(50, <<>>)
    ELSE [score |-> 50 * ScoreUnit + (Val(sentiment_score) * 25 * ScoreUnit) \div 100,
          used |-> <<"News_Sentiment">>]

\* Mutant of _analyze_ml_prediction: the prediction scaled by 100, not by 25.
_analyze_ml_prediction_Percent(prediction) ==
    IF IsNone(prediction) THEN Scored(50, <<>>)
    ELSE [score |-> 50 * ScoreUnit + (Val(prediction) * 100 * ScoreUnit) \div 100,
          used |-> <<"AI_Prediction">>]

\* score = 50 + prediction * 25, the prediction held in hundredths
_analyze_ml_prediction(prediction) ==
    IF IsNone(prediction) THEN Scored(50, <<>>)
    ELSE [score |-> 50 * ScoreUnit + (Val(prediction) * 25 * ScoreUnit) \div 100,
          used |-> <<"AI_Prediction">>]

\* ------------------------------------------------------------------ signal type
\* Mutant of _determine_signal_type_ai_first: the neutral-AI branch compares the
\* technical score with 50 instead of 60 and 40.
_determine_signal_type_ai_first_Neutral50(ai_score, technical_score, news_score) ==
    IF ai_score > 60 * ScoreUnit
    THEN IF technical_score < 40 * ScoreUnit THEN "HOLD" ELSE "BUY"
    ELSE IF ai_score < 40 * ScoreUnit
    THEN IF technical_score > 60 * ScoreUnit THEN "HOLD" ELSE "SELL"
    ELSE IF technical_score > 50 * ScoreUnit THEN "BUY"
         ELSE IF technical_score < 50 * ScoreUnit THEN "SELL"
         ELSE "HOLD"

\* Mutant of _determine_signal_type_ai_first: bearish technicals turn a bullish
\* AI into SELL, bullish technicals turn a bearish AI into BUY.
_determine_signal_type_ai_first_TechWins(ai_score, technical_score, news_score) ==
    IF technical_score > 60 * ScoreUnit THEN "BUY"
    ELSE IF technical_score < 40 * ScoreUnit THEN "SELL"
    ELSE IF ai_score > 60 * ScoreUnit THEN "BUY"
    ELSE IF ai_score < 40 * ScoreUnit THEN "SELL"
    ELSE "HOLD"

_determine_signal_type_ai_first(ai_score, technical_score, news_score) ==
    IF ai_score > 60 * ScoreUnit
    THEN IF technical_score > 50 * ScoreUnit THEN "BUY"
         ELSE IF technical_score < 40 * ScoreUnit THEN "HOLD"
         ELSE "BUY"
    ELSE IF ai_score < 40 * ScoreUnit
    THEN IF technical_score < 50 * ScoreUnit THEN "SELL"
         ELSE IF technical_score > 60 * ScoreUnit THEN "HOLD"
         ELSE "SELL"
    ELSE IF technical_score > 60 * ScoreUnit THEN "BUY"
         ELSE IF technical_score < 40 * ScoreUnit THEN "SELL"
         ELSE "HOLD"

\* ------------------------------------------------------------------ risk levels
\* entry and atr in price units; the result in RiskUnit (hundredths).
\* Mutant of _calculate_stop_loss: the multiple is 1.5 whatever the trend.
_calculate_stop_loss_FixedMultiple(entry, signal_type, atr, price_action) ==
    IF signal_type = "BUY" THEN entry * RiskUnit - atr * 150
    ELSE IF signal_type = "SELL" THEN entry * RiskUnit + atr * 150
    ELSE entry * 98

_calculate_stop_loss(entry, signal_type, atr, price_action) ==
    LET atr_multiplier == IF TrendIs(price_action, "uptrend") THEN 150 ELSE 100
    IN  IF signal_type = "BUY" THEN entry * RiskUnit - atr * atr_multiplier
        ELSE IF signal_type = "SELL" THEN entry * RiskUnit + atr * atr_multiplier
        ELSE entry * 98

_calculate_take_profit(entry, signal_type, atr) ==
    LET atr_multiplier == 200
    IN  IF signal_type = "BUY" THEN entry * RiskUnit + atr * atr_multiplier
        ELSE IF signal_type = "SELL" THEN entry * RiskUnit - atr * atr_multiplier
        ELSE entry * 102

\* ------------------------------------------------------------------ generate_signal
\* Mutant of TechnicalAvg: the sum, not divided by 5.
TechnicalAvg_Sum(rsi_score, macd_score, ma_score, bb_score, pa_score) ==
    rsi_score + macd_score + ma_score + bb_score + pa_score

\* technical_avg (line 66).  The five scores are whole multiples of 5 points, so
\* the division is exact.
TechnicalAvg(rsi_score, macd_score, ma_score, bb_score, pa_score) ==
    (rsi_score + macd_score + ma_score + bb_score + pa_score) \div 5

\* The aggregate: ai*0.50 + technical_avg*0.35 + news*0.15, in ConfUnit.
TotalConfidence(ai_score, technical_avg, news_score) ==
    ai_score * 50 + technical_avg * 35 + news_score * 15

\* The ATR the risk levels use (lines 73-74).
EffectiveAtr(atr_value, technical_indicators, last_candle) ==
    IF ~IsNone(atr_value) THEN Val(atr_value)
    ELSE IF Truthy(technical_indicators.atr) THEN Val(technical_indicators.atr)
    ELSE last_candle.high - last_candle.low

\* Mutant of BelowCutoff: the earlier cutoff of 40.
BelowCutoff_Forty(total_confidence) == total_confidence < 40 * ConfUnit

\* The suppression test of lines 101-103.
BelowCutoff(total_confidence) == total_confidence < 35 * ConfUnit

\* The local variables of generate_signal once it is past the length check.
SignalLocals(candles, technical_indicators, news_sentiment, ml_prediction, atr_value) ==
    LET last_candle  == candles[Len(candles)]
        entry_price  == last_candle.close
        price_action == analyze_price_action(candles)
        ai    == _analyze_ml_prediction(ml_prediction)
        rsi   == _analyze_rsi(technical_indicators)
        macd  == _analyze_macd(technical_indicators)
        ma    == _analyze_moving_averages(last_candle.close, technical_indicators)
        bb    == _analyze_bollinger_bands(last_candle.close, technical_indicators)
        pa    == _analyze_price_action(price_action)
        news  == _analyze_news_sentiment(news_sentiment)
        technical_avg == TechnicalAvg(rsi.score, macd.score, ma.score, bb.score, pa.score)
        total_confidence == TotalConfidence(ai.score, technical_avg, news.score)
        signal_type == _determine_signal_type_ai_first(ai.score, technical_avg, news.score)
        atr == EffectiveAtr(atr_value, technical_indicators, last_candle)
    IN  [ai_score |-> ai.score, rsi_score |-> rsi.score, macd_score |-> macd.score,
         ma_score |-> ma.score, bb_score |-> bb.score, pa_score |-> pa.score,
         news_score |-> news.score, technical_avg |-> technical_avg,
         total_confidence |-> total_confidence, signal_type |-> signal_type,
         price_action |-> price_action, atr |-> atr, entry_price |-> entry_price,
         stop_loss |-> _calculate_stop_loss(entry_price, signal_type, atr, price_action),
         take_profit |-> _calculate_take_profit(entry_price, signal_type, atr),
         indicators_used |-> ai.used \o rsi.used \o macd.used \o ma.used
                             \o bb.used \o pa.used \o news.used]

TradeSignal(f) ==
    [signal_type |-> f.signal_type, confidence |-> f.total_confidence,
     entry_price |-> f.entry_price, stop_loss |-> f.stop_loss,
     take_profit |-> f.take_profit, indicators_used |-> f.indicators_used]

\* Mutant of TooFewCandles: the minimum of analyze_price_action (3) instead of 5.
TooFewCandles_Three(candles) == Len(candles) = 0 \/ Len(candles) < 3

TooFewCandles(candles) == Len(candles) = 0 \/ Len(candles) < 5

generate_signal(candles, technical_indicators, news_sentiment, ml_prediction, atr_value) ==
    IF TooFewCandles(candles) THEN None
    ELSE LET f == SignalLocals(candles, technical_indicators, news_sentiment,
                               ml_prediction, atr_value)
         IN  IF BelowCutoff(f.total_confidence) THEN None ELSE Some(TradeSignal(f))

\* ------------------------------------------------------------------ state
VARIABLES
    candles,               \* generate_signal's arguments
    technical_indicators,
    news_sentiment,
    ml_prediction,
    atr_value,
    sig_pc,                \* "call": about to run generate_signal; "return": it returned
    frame,                 \* Some(local variables) once past the length check, else None
    signal,                \* the returned Optional[TradeSignal]
    prices,                \* calculate_rsi's arguments
    period,
    rsi_pc,                \* "call" / "return" of calculate_rsi
    rsi,                   \* the returned Optional[float]
    test_candles,          \* TestSignalGeneration.test_candles
    test_pc,               \* "setUp": building test_candles; "test": built
    test_args,             \* Some([n, computed]) of the latest generate_signal call
    fn_pc,                 \* "call" / "return" of one call of a pure function
    fn_call,               \* that call: the function's name and its arguments
    fn_result,             \* what it returned
    th,                    \* per symbol, the analysis running on it (a thread's locals)
    running,               \* SpyTradeApp.running
    signals_history,       \* SpyTradeApp.signals_history
    run_frame,             \* Some(position and locals of SpyTradeApp.run), else None
    latest_signals,        \* Some(the list get_latest_signals returned), else None
    dashboard_data,        \* app.py's cache: per symbol, the entry of the last update
    is_running,            \* app.py's flag of the background updates
    update_threads,        \* every thread started on update_dashboard_data, in order
    requests,              \* the HTTP requests being handled and those answered
    fetches,               \* how many candle fetches returned data so far
    cache_writes           \* per symbol, the locals of the updates that wrote, in order

sigArgs == <<candles, technical_indicators, news_sentiment, ml_prediction, atr_value>>
sigVars == <<sigArgs, sig_pc, frame, signal>>
rsiVars == <<prices, period, rsi_pc, rsi>>
testVars == <<test_candles, test_pc, test_args>>
fnVars == <<fn_pc, fn_call, fn_result>>
mainVars == <<running, signals_history, run_frame, latest_signals>>
webVars == <<dashboard_data, is_running, update_threads, requests, fetches, cache_writes>>
appVars == <<mainVars, webVars>>

vars == <<sigVars, rsiVars, testVars, fnVars, th, appVars>>

\* ------------------------------------------------------------------ inputs
Prices == 1..MaxPrice

\* Every candle over Prices that satisfies the Candle invariant
\* (high >= max(open, close), low <= min(open, close)).
Candles ==
    {Candle(o, h, l, c) : o \in Prices, h \in Prices, l \in Prices, c \in Prices}

ValidCandles ==
    {k \in Candles : /\ k.high >= k.open /\ k.high >= k.close
                     /\ k.low <= k.open /\ k.low <= k.close}

FlatCandles == {Candle(p, p, p, p) : p \in Prices}

\* A series of n candles: n-1 times `prev`, then `last`.
CandleList(n, prev, last) == [i \in 1..n |-> IF i = n THEN last ELSE prev]

\* Series of every length 0..MaxCandles: a flat market, then any valid candle.
RiskCandleLists ==
    {CandleList(n, prev, last) : n \in 0..MaxCandles, prev \in FlatCandles,
                                 last \in ValidCandles}

\* Series of the minimum length that yields a signal: flat at 2, then any valid candle.
ScoringCandleLists == {CandleList(5, Candle(2, 2, 2, 2), last) : last \in ValidCandles}

RsiValues == {None, Some(Frac(20, 1)), Some(Frac(35, 1)), Some(Frac(50, 1)),
              Some(Frac(65, 1)), Some(Frac(80, 1))}

\* <<macd, macd_signal, macd_histogram>>
MacdValues == {<<None, None, None>>,
               <<Some(1), Some(0), Some(1)>>,
               <<Some(-1), Some(0), Some(-1)>>,
               <<Some(1), Some(0), None>>}

\* <<sma_20, sma_50>>
SmaValues == {<<None, None>>, <<Some(2), Some(1)>>, <<Some(2), Some(2)>>,
              <<Some(2), Some(3)>>}

\* <<bollinger_upper, bollinger_middle, bollinger_lower>>
BollingerValues == {<<None, None, None>>, <<Some(3), Some(2), Some(1)>>,
                    <<Some(2), Some(2), Some(2)>>}

AtrValues == {None, Some(0), Some(1), Some(2)}

AtrOverrides == {None, Some(0), Some(1)}

\* sentiment and prediction in hundredths: -1.0, 0.4, 1.0
Sentiments == {None, Some(-100), Some(100)}

Predictions == {None, Some(-100), Some(40), Some(100)}

\* Every indicator snapshot with an ATR only.
RiskIndicators ==
    {TechnicalIndicators(None, None, None, None, None, None, None, None, None, a) :
        a \in AtrValues}

\* Every indicator snapshot over the value sets, without an ATR.
ScoringIndicators ==
    {TechnicalIndicators(r, m[1], m[2], m[3], s[1], s[2], b[1], b[2], b[3], None) :
        r \in RsiValues, m \in MacdValues, s \in SmaValues, b \in BollingerValues}

\* ------------------------------------------------------------------ specification
\* The inputs vary either the candles and the ATR sources (risk levels) or
\* the indicator snapshot and the sentiment (scores).
InitRisk ==
    /\ candles \in RiskCandleLists
    /\ technical_indicators \in RiskIndicators
    /\ news_sentiment = None
    /\ ml_prediction \in Predictions
    /\ atr_value \in AtrOverrides

InitScoring ==
    /\ candles \in ScoringCandleLists
    /\ technical_indicators \in ScoringIndicators
    /\ news_sentiment \in Sentiments
    /\ ml_prediction \in Predictions
    /\ atr_value = None

SigIdle ==
    /\ candles = <<>>
    /\ technical_indicators = NoIndicators
    /\ news_sentiment = None
    /\ ml_prediction = None
    /\ atr_value = None
    /\ sig_pc = "idle"
    /\ frame = None
    /\ signal = None

RsiIdle ==
    /\ prices = <<>>
    /\ period = 0
    /\ rsi_pc = "idle"
    /\ rsi = None

TestIdle ==
    /\ test_candles = <<>>
    /\ test_pc = "idle"
    /\ test_args = None

MainIdle ==
    /\ running = FALSE
    /\ signals_history = <<>>
    /\ run_frame = None
    /\ latest_signals = None

WebIdle ==
    /\ dashboard_data = None
    /\ is_running = FALSE
    /\ update_threads = <<>>
    /\ requests = <<>>
    /\ fetches = 0
    /\ cache_writes = None

FnIdle ==
    /\ fn_pc = "idle"
    /\ fn_call = None
    /\ fn_result = None
    /\ th = None
    /\ MainIdle
    /\ WebIdle

Init ==
    /\ InitRisk \/ InitScoring
    /\ sig_pc = "call"
    /\ frame = None
    /\ signal = None
    /\ RsiIdle
    /\ TestIdle
    /\ FnIdle

\* One call of SignalGenerator.generate_signal on the arguments.
GenerateSignal ==
    /\ sig_pc = "call"
    /\ sig_pc' = "return"
    /\ frame' = IF TooFewCandles(candles) THEN None
                ELSE Some(SignalLocals(candles, technical_indicators, news_sentiment,
                                       ml_prediction, atr_value))
    /\ signal' = generate_signal(candles, technical_indicators, news_sentiment,
                                 ml_prediction, atr_value)
    /\ UNCHANGED <<sigArgs, rsiVars, testVars, fnVars, th, appVars>>

Next == GenerateSignal

Spec == Init /\ [][Next]_vars

\* ------------------------------------------------------------------ calculate_rsi
\* Every price series of length 0..MaxLen over Prices.
PriceSeqs == UNION {[1..n -> Prices] : n \in 0..MaxLen}

\* test_rsi_calculation's series, prices = [100 + i * 0.5 for i in range(50)],
\* in price units of 0.5.
RSI_TEST_POINTS == 50
RSI_TEST_START == 200
RSI_TEST_STEP == 1

UptrendPrices == [i \in 1..RSI_TEST_POINTS |-> RSI_TEST_START + (i - 1) * RSI_TEST_STEP]

InitRsi ==
    /\ prices \in PriceSeqs \cup {UptrendPrices}
    /\ period \in 1..MaxPeriod \cup {RSI_DEFAULT_PERIOD}
    /\ rsi_pc = "call"
    /\ rsi = None
    /\ SigIdle
    /\ TestIdle
    /\ FnIdle

\* One call of TechnicalAnalyzer.calculate_rsi on the arguments.
CalculateRsi ==
    /\ rsi_pc = "call"
    /\ rsi_pc' = "return"
    /\ rsi' = calculate_rsi(prices, period)
    /\ UNCHANGED <<prices, period, sigVars, testVars, fnVars, th, appVars>>

NextRsi == CalculateRsi

SpecRsi == InitRsi /\ [][NextRsi]_vars

\* ------------------------------------------------------------------ the test series
\* TestSignalGeneration.setUp: 50 candles, open 450.0, high 451.0, low 449.0,
\* close 450.0 + i*0.1.  One price unit is 0.0001 here.
TEST_CANDLES == 50
TEST_OPEN == 4500000
TEST_HIGH == 4510000
TEST_LOW == 4490000
TEST_STEP == 1000

TestCandle(i) == Candle(TEST_OPEN, TEST_HIGH, TEST_LOW, TEST_OPEN + i * TEST_STEP)

InitTest ==
    /\ test_candles = <<>>
    /\ test_pc = "setUp"
    /\ test_args = None
    /\ SigIdle
    /\ RsiIdle
    /\ FnIdle

\* One iteration of setUp's loop.
SetUpAppend ==
    /\ test_pc = "setUp"
    /\ test_candles' = Append(test_candles, TestCandle(Len(test_candles)))
    /\ test_pc' = IF Len(test_candles) + 1 = TEST_CANDLES THEN "test" ELSE "setUp"
    /\ UNCHANGED <<test_args, sigVars, rsiVars, fnVars, th, appVars>>

\* A test passes test_candles[:n] to generate_signal, with the indicators of
\* that slice (computed) or with an empty TechnicalIndicators(), and neither
\* sentiment, prediction nor ATR override.
TestCall(n, computed) ==
    /\ test_pc = "test"
    /\ sig_pc \in {"idle", "return"}
    /\ candles' = SubSeq(test_candles, 1, n)
    /\ technical_indicators' = IF computed THEN calculate_all_indicators(candles')
                                            ELSE NoIndicators
    /\ news_sentiment' = None
    /\ ml_prediction' = None
    /\ atr_value' = None
    /\ sig_pc' = "call"
    /\ frame' = None
    /\ signal' = None
    /\ test_args' = Some([n |-> n, computed |-> computed])
    /\ UNCHANGED <<test_candles, test_pc, rsiVars, fnVars, th, appVars>>

NextTest ==
    \/ SetUpAppend
    \/ \E n \in 0..TEST_CANDLES, computed \in BOOLEAN : TestCall(n, computed)
    \/ GenerateSignal

SpecTest == InitTest /\ [][NextTest]_vars

\* ------------------------------------------------------------------ properties
Returned == sig_pc = "return"

LastCandle == candles[Len(candles)]

\* C1: generate_signal returns None for every input with fewer than 5 candles
\* (the empty list included), whatever the indicators, the sentiment, the
\* prediction and the ATR override are.
C1_FewCandlesNoSignal ==
    (Returned /\ Len(candles) < 5) => IsNone(signal)

C1_Witness ==
    /\ Returned
    /\ Len(candles) = 4
    /\ ~IsNone(ml_prediction)
    /\ ~IsNone(atr_value)
    /\ ~IsNone(technical_indicators.atr)
    /\ IsNone(signal)

\* C2 (as claimed): for every produced TradeSignal, signal_type is BUY iff
\* confidence > 60, SELL iff confidence < 40, and HOLD otherwise.
C2_TypeFollowsConfidence ==
    (Returned /\ ~IsNone(signal)) =>
        LET s == Val(signal)
        IN  /\ (s.signal_type = "BUY") <=> (s.confidence > 60 * ConfUnit)
            /\ (s.signal_type = "SELL") <=> (s.confidence < 40 * ConfUnit)
            /\ (s.signal_type = "HOLD") <=> (/\ s.confidence >= 40 * ConfUnit
                                             /\ s.confidence <= 60 * ConfUnit)

\* The seven-factor weighted sum of ARCHITECTURE.py, in ConfUnit.
SevenFactorSum(f) ==
    20 * f.rsi_score + 20 * f.macd_score + 20 * f.pa_score + 15 * f.ma_score
    + 10 * f.bb_score + 10 * f.news_score + 5 * f.ai_score

\* C3 (as claimed): the confidence equals 0.20*RSI + 0.20*MACD + 0.20*price
\* action + 0.15*MA + 0.10*Bollinger + 0.10*sentiment + 0.05*prediction, an
\* absent factor contributing its neutral 50.
C3_ConfidenceIsSevenFactorSum ==
    (Returned /\ ~IsNone(frame)) =>
        Val(frame).total_confidence = SevenFactorSum(Val(frame))

\* C4 (as claimed): every returned TradeSignal has confidence >=
\* CONFIDENCE_THRESHOLD (60), and with at least 5 candles the result is None
\* exactly when the confidence is below it.
C4_SuppressedBelowThreshold ==
    (Returned /\ ~IsNone(frame)) =>
        (IsNone(signal) <=>
            Val(frame).total_confidence < CONFIDENCE_THRESHOLD * ConfUnit)

\* C5 (as claimed): a TradeSignal is produced if and only if the series has at
\* least 5 candles.
C5_SignalIffFiveCandles ==
    Returned => (~IsNone(signal) <=> Len(candles) >= 5)

\* C5 (amended): a TradeSignal is produced if and only if the series has at
\* least 5 candles and the aggregate confidence is at least 35; with fewer
\* than 5 candles none is produced.
C5_SignalIffFiveCandlesAndCutoff ==
    Returned =>
        (~IsNone(signal) <=>
            (/\ Len(candles) >= 5
             /\ ~IsNone(frame)
             /\ Val(frame).total_confidence >= 35 * ConfUnit))

C5_Witness ==
    /\ Returned
    /\ Len(candles) >= 5
    /\ IsNone(signal)
    /\ Val(frame).total_confidence < 35 * ConfUnit

\* C6 (as claimed): for a returned BUY, stop_loss < entry_price < take_profit;
\* for a returned SELL, take_profit < entry_price < stop_loss.
C6_RiskLevelsOrdered ==
    (Returned /\ ~IsNone(signal)) =>
        LET s == Val(signal)
            entry == s.entry_price * RiskUnit
        IN  /\ s.signal_type = "BUY" => (s.stop_loss < entry /\ entry < s.take_profit)
            /\ s.signal_type = "SELL" => (s.take_profit < entry /\ entry < s.stop_loss)

\* C8: the aggregate confidence generate_signal computes is within [0,100]
\* for every combination of present and absent indicators, every price-action
\* result and every sentiment and prediction in [-1,1].
C8_ConfidenceInRange ==
    (Returned /\ ~IsNone(frame)) =>
        /\ Val(frame).total_confidence >= 0
        /\ Val(frame).total_confidence <= 100 * ConfUnit

C8_Witness ==
    /\ Returned
    /\ ~IsNone(signal)
    /\ Len(Val(signal).indicators_used) = 7
    /\ Val(signal).confidence > 60 * ConfUnit

\* The local trend, read off the last two candles.
IsUptrend ==
    /\ LastCandle.high > candles[Len(candles) - 1].high
    /\ LastCandle.low > candles[Len(candles) - 1].low

\* The risk levels of a signal for a given ATR: stop 1.5 ATR away in an
\* uptrend and 1.0 ATR otherwise, target 2.0 ATR away, 2% either side for HOLD.
RiskLevelsFor(s, atr) ==
    LET entry == s.entry_price * RiskUnit
        stop  == IF IsUptrend THEN 150 * atr ELSE 100 * atr
    IN  /\ s.entry_price = LastCandle.close
        /\ s.signal_type = "BUY" =>
               (s.stop_loss = entry - stop /\ s.take_profit = entry + 200 * atr)
        /\ s.signal_type = "SELL" =>
               (s.stop_loss = entry + stop /\ s.take_profit = entry - 200 * atr)
        /\ s.signal_type = "HOLD" =>
               (s.stop_loss = 98 * s.entry_price /\ s.take_profit = 102 * s.entry_price)

\* C9 (as claimed): the ATR used is the override if given, else the indicator
\* ATR, else the last candle's high - low; the risk levels follow from it.
C9_RiskLevels ==
    (Returned /\ ~IsNone(signal)) =>
        RiskLevelsFor(Val(signal),
            IF ~IsNone(atr_value) THEN Val(atr_value)
            ELSE IF ~IsNone(technical_indicators.atr) THEN Val(technical_indicators.atr)
            ELSE LastCandle.high - LastCandle.low)

\* C9 (amended): the ATR used is the override if given, else the indicator
\* ATR if it is present and not zero, else the last candle's high - low; the
\* risk levels follow from it.
C9_RiskLevelsNonZeroAtr ==
    (Returned /\ ~IsNone(signal)) =>
        RiskLevelsFor(Val(signal),
            IF ~IsNone(atr_value) THEN Val(atr_value)
            ELSE IF ~IsNone(technical_indicators.atr)
                    /\ Val(technical_indicators.atr) # 0
                 THEN Val(technical_indicators.atr)
            ELSE LastCandle.high - LastCandle.low)

C9_Witness ==
    /\ Returned
    /\ ~IsNone(signal)
    /\ Val(signal).signal_type = "BUY"
    /\ IsUptrend
    /\ IsNone(atr_value)
    /\ technical_indicators.atr = Some(0)
    /\ LastCandle.high - LastCandle.low > 0
    /\ Val(signal).stop_loss < Val(signal).entry_price * RiskUnit

\* C7 (as claimed): for the 50-candle test series with the indicators of
\* calculate_all_indicators and no sentiment or prediction, generate_signal
\* returns a BUY signal with entry_price = 454.9 and
\* stop_loss < 454.9 < take_profit.
FullSeriesReturned ==
    /\ Returned
    /\ test_args = Some([n |-> TEST_CANDLES, computed |-> TRUE])

\* 454.9, in price units of 0.0001
TEST_LAST_CLOSE == 4549 * TEST_STEP

C7_FullSeriesIsBuy ==
    FullSeriesReturned =>
        /\ ~IsNone(signal)
        /\ Val(signal).signal_type = "BUY"
        /\ Val(signal).entry_price = TEST_LAST_CLOSE
        /\ Val(signal).stop_loss < TEST_LAST_CLOSE * RiskUnit
        /\ TEST_LAST_CLOSE * RiskUnit < Val(signal).take_profit

\* C7 (amended): for that series generate_signal returns a HOLD signal with
\* entry_price = 454.9, stop_loss = 0.98 * 454.9 and take_profit = 1.02 * 454.9,
\* so stop_loss < 454.9 < take_profit.
C7_FullSeriesIsHold ==
    FullSeriesReturned =>
        /\ ~IsNone(signal)
        /\ Val(signal).signal_type = "HOLD"
        /\ Val(signal).entry_price = TEST_LAST_CLOSE
        /\ Val(signal).stop_loss = 98 * TEST_LAST_CLOSE
        /\ Val(signal).take_profit = 102 * TEST_LAST_CLOSE
        /\ Val(signal).stop_loss < TEST_LAST_CLOSE * RiskUnit
        /\ TEST_LAST_CLOSE * RiskUnit < Val(signal).take_profit

C7_Witness ==
    /\ FullSeriesReturned
    /\ Len(candles) = TEST_CANDLES
    /\ candles[TEST_CANDLES].close = TEST_LAST_CLOSE
    /\ ~IsNone(signal)
    /\ Val(signal).indicators_used = <<"RSI", "MACD", "MA", "BB", "Price_Action">>

StrictlyIncreasing(xs) == \A i \in 1..(Len(xs) - 1) : xs[i] < xs[i + 1]

PRICE_SCALE == 1000

ScaledPrices == {p * PRICE_SCALE : p \in Prices}

\* Every price series over ScaledPrices up to one longer than the longest period.
IndPriceSeqs == UNION {[1..n -> ScaledPrices] : n \in 0..(MaxPeriod + 1)}

Periods == 1..MaxPeriod

\* The width multipliers: none, and the default.
StdDevs == {0, BB_DEFAULT_STD_DEV}

ScaledCandle(k) ==
    Candle(k.open * PRICE_SCALE, k.high * PRICE_SCALE, k.low * PRICE_SCALE,
           k.close * PRICE_SCALE)

\* Candle series up to one longer than the longest period plus one: a flat
\* market, then any valid candle.
IndCandleLists ==
    {CandleList(n, ScaledCandle(prev), ScaledCandle(last)) :
        n \in 0..(MaxPeriod + 2), prev \in FlatCandles, last \in ValidCandles}

\* Candle series of every length up to past the longest default lookback (50).
SnapshotCandleLists ==
    {CandleList(n, ScaledCandle(prev), ScaledCandle(last)) :
        n \in 0..(TEST_CANDLES + 1), prev \in FlatCandles, last \in FlatCandles}

\* Prices for the candles analyze_price_action reads: far enough apart for
\* a body of a tenth of the range and less.
PatternPrices == Prices \cup {7, 8, 9, 15}

\* Series of 0 to 4 candles: a flat market, then any candle at all over
\* PatternPrices, whether or not its high and low bound its open and close.
PatternCandleLists ==
    {CandleList(n, Candle(p, p, p, p), Candle(o, h, l, c)) :
        n \in 0..4, p \in PatternPrices,
        o \in PatternPrices, h \in PatternPrices, l \in PatternPrices,
        c \in PatternPrices}

Call(fn, args) == [fn |-> fn, args |-> args]

IndCalls ==
    {Call("calculate_sma", <<ps, n>>) : ps \in IndPriceSeqs, n \in Periods}
    \cup {Call("calculate_bollinger_bands", <<ps, n, k>>) :
              ps \in IndPriceSeqs, n \in Periods, k \in StdDevs}
    \cup {Call("calculate_atr", <<cs, n>>) : cs \in IndCandleLists, n \in Periods}
    \cup {Call("calculate_macd", <<ps, f, sl, sg>>) :
              ps \in IndPriceSeqs, f \in Periods, sl \in Periods, sg \in Periods}
    \cup {Call("calculate_all_indicators", <<cs>>) : cs \in SnapshotCandleLists}
    \cup {Call("analyze_price_action", <<cs>>) : cs \in PatternCandleLists}

\* Either calculate_rsi is called, or one of the other indicator functions.
InitInd ==
    /\ SigIdle
    /\ TestIdle
    /\ \/ /\ prices \in IndPriceSeqs
          /\ period \in Periods
          /\ rsi_pc = "call"
          /\ rsi = None
          /\ FnIdle
       \/ /\ RsiIdle
          /\ fn_call \in IndCalls
          /\ fn_pc = "call"
          /\ fn_result = None
          /\ th = None
          /\ MainIdle
          /\ WebIdle

\* One call of a static method: fn_result becomes what it returns.
Return(fn, result) ==
    /\ fn_pc = "call"
    /\ fn_call.fn = fn
    /\ fn_pc' = "return"
    /\ fn_result' = result
    /\ UNCHANGED <<fn_call, sigVars, rsiVars, testVars, th, appVars>>

CalculateSma ==
    Return("calculate_sma", calculate_sma(fn_call.args[1], fn_call.args[2]))

CalculateBollingerBands ==
    Return("calculate_bollinger_bands",
           calculate_bollinger_bands(fn_call.args[1], fn_call.args[2], fn_call.args[3]))

CalculateAtr ==
    Return("calculate_atr", calculate_atr(fn_call.args[1], fn_call.args[2]))

CalculateMacd ==
    Return("calculate_macd",
           calculate_macd(fn_call.args[1], fn_call.args[2], fn_call.args[3],
                          fn_call.args[4]))

CalculateAllIndicators ==
    Return("calculate_all_indicators", calculate_all_indicators(fn_call.args[1]))

AnalyzePriceAction ==
    Return("analyze_price_action", analyze_price_action(fn_call.args[1]))

NextInd ==
    \/ CalculateRsi
    \/ CalculateSma
    \/ CalculateBollingerBands
    \/ CalculateAtr
    \/ CalculateMacd
    \/ CalculateAllIndicators
    \/ AnalyzePriceAction

SpecInd == InitInd /\ [][NextInd]_vars

Returns(fn) == fn_pc = "return" /\ fn_call.fn = fn

NoneTriple == <<None, None, None>>

\* A triple of three present values.
IsValueTriple(t) == Len(t) = 3 /\ \A i \in 1..3 : ~IsNone(t[i])

\* The lookbacks of rsi, sma, bollinger and atr, as claimed and as they are.
ShortInputMeansAbsent ==
    /\ rsi_pc = "return" => (IsNone(rsi) <=> Len(prices) < period + 1)
    /\ Returns("calculate_sma") =>
           (IsNone(fn_result) <=> Len(fn_call.args[1]) < fn_call.args[2])
    /\ Returns("calculate_bollinger_bands") =>
           /\ fn_result = NoneTriple <=> Len(fn_call.args[1]) < fn_call.args[2]
           /\ fn_result = NoneTriple \/ IsValueTriple(fn_result)
    /\ Returns("calculate_atr") =>
           (IsNone(fn_result) <=> Len(fn_call.args[1]) < fn_call.args[2] + 1)

\* The fields of the snapshot, each by its own default lookback.
SnapshotFieldsIndependent ==
    Returns("calculate_all_indicators") =>
        LET n == Len(fn_call.args[1])
            t == fn_result
        IN  /\ IsNone(t.rsi) <=> n < RSI_DEFAULT_PERIOD + 1
            /\ IsNone(t.macd) <=> n < MACD_DEFAULT_SLOW
            /\ IsNone(t.macd_signal) <=> n < MACD_DEFAULT_SLOW
            /\ IsNone(t.macd_histogram) <=> n < MACD_DEFAULT_SLOW
            /\ IsNone(t.sma_20) <=> n < 20
            /\ IsNone(t.sma_50) <=> n < 50
            /\ IsNone(t.bollinger_upper) <=> n < BB_DEFAULT_PERIOD
            /\ IsNone(t.bollinger_middle) <=> n < BB_DEFAULT_PERIOD
            /\ IsNone(t.bollinger_lower) <=> n < BB_DEFAULT_PERIOD
            /\ IsNone(t.atr) <=> n < ATR_DEFAULT_PERIOD + 1

BandsReturned ==
    /\ Returns("calculate_bollinger_bands")
    /\ Len(fn_call.args[1]) >= fn_call.args[2]

BandWindow == LastN(fn_call.args[1], fn_call.args[2])

AllEqual(xs) == \A i \in 1..Len(xs) : xs[i] = xs[1]

\* upper >= middle >= lower, middle the mean of the window, the band symmetric.
BandsOrdered ==
    LET upper  == Val(fn_result[1])
        middle == Val(fn_result[2])
        lower  == Val(fn_result[3])
    IN  /\ upper >= middle
        /\ middle >= lower
        /\ middle = Mean(BandWindow)
        /\ upper - middle = middle - lower

BandsStrict == Val(fn_result[1]) > Val(fn_result[2]) /\ Val(fn_result[2]) > Val(fn_result[3])

\* C13 (as claimed): for at least `period` prices and a non-negative width
\* multiplier, upper >= middle >= lower, strictly whenever the last `period`
\* prices are not all equal; middle is their mean and
\* upper - middle = middle - lower.
C13_BandsOrdered ==
    BandsReturned =>
        /\ BandsOrdered
        /\ ~AllEqual(BandWindow) => BandsStrict

\* C13 (amended): as claimed, the inequalities being strict exactly when the
\* last `period` prices are not all equal and the width multiplier is positive.
C13_BandsOrderedStrictIfPositiveWidth ==
    BandsReturned =>
        /\ BandsOrdered
        /\ BandsStrict <=> (~AllEqual(BandWindow) /\ fn_call.args[3] > 0)

C13_Witness ==
    /\ BandsReturned
    /\ Len(fn_call.args[1]) > fn_call.args[2]
    /\ ~AllEqual(BandWindow)
    /\ fn_call.args[3] = 0
    /\ Val(fn_result[1]) = Val(fn_result[3])

\* A returned analyze_price_action call and the candles it read.
PriceActionReturned == Returns("analyze_price_action")

AnalyzedCandles == fn_call.args[1]
AnalyzedLast == AnalyzedCandles[Len(AnalyzedCandles)]
AnalyzedPrev == AnalyzedCandles[Len(AnalyzedCandles) - 1]

\* C14: in every non-empty result of analyze_price_action, is_bullish and
\* is_bearish are never both true, and both are false exactly when the last
\* candle's close equals its open.
C14_BullishBearishExclusive ==
    (PriceActionReturned /\ ~fn_result.empty) =>
        /\ ~(fn_result.is_bullish /\ fn_result.is_bearish)
        /\ (~fn_result.is_bullish /\ ~fn_result.is_bearish)
               <=> AnalyzedLast.close = AnalyzedLast.open

C14_Witness ==
    /\ PriceActionReturned
    /\ ~fn_result.empty
    /\ AnalyzedLast.close = AnalyzedLast.open
    /\ AnalyzedLast.high > AnalyzedLast.low
    /\ ~fn_result.is_bullish
    /\ ~fn_result.is_bearish

\* The Candle invariant: high >= max(open, close), low <= min(open, close).
CandleInvariant(k) ==
    /\ k.high >= k.open /\ k.high >= k.close
    /\ k.low <= k.open /\ k.low <= k.close

\* C15: for every series of at least 3 candles satisfying the Candle
\* invariant, body_percent is in [0,100] and close_position in [0,1]; when the
\* last candle's range is 0, body_percent is 0 and close_position is 0.5.
C15_BodyPercentAndClosePositionInRange ==
    (/\ PriceActionReturned
     /\ Len(AnalyzedCandles) >= 3
     /\ \A i \in 1..Len(AnalyzedCandles) : CandleInvariant(AnalyzedCandles[i])) =>
        /\ ~fn_result.empty
        /\ fn_result.body_percent >= 0
        /\ fn_result.body_percent <= 100 * ScoreUnit
        /\ fn_result.close_position[2] > 0
        /\ fn_result.close_position[1] >= 0
        /\ fn_result.close_position[1] <= fn_result.close_position[2]
        /\ AnalyzedLast.high = AnalyzedLast.low =>
               /\ fn_result.body_percent = 0
               /\ fn_result.close_position = Frac(1, 2)

C15_Witness ==
    /\ PriceActionReturned
    /\ Len(AnalyzedCandles) >= 3
    /\ CandleInvariant(AnalyzedLast)
    /\ AnalyzedLast.high = AnalyzedLast.low
    /\ fn_result.close_position = Frac(1, 2)

\* C16: trend_type is exactly one of uptrend, downtrend, ranging: uptrend iff
\* the last candle's high and low are both strictly higher than the previous
\* candle's, downtrend iff both are strictly lower, ranging otherwise (equal
\* highs or equal lows included); fewer than 3 candles give an empty result.
C16_TrendType ==
    PriceActionReturned =>
        /\ fn_result.empty <=> Len(AnalyzedCandles) < 3
        /\ ~fn_result.empty =>
               /\ fn_result.trend_type \in {"uptrend", "downtrend", "ranging"}
               /\ fn_result.trend_type = "uptrend" <=>
                      (/\ AnalyzedLast.high > AnalyzedPrev.high
                       /\ AnalyzedLast.low > AnalyzedPrev.low)
               /\ fn_result.trend_type = "downtrend" <=>
                      (/\ AnalyzedLast.high < AnalyzedPrev.high
                       /\ AnalyzedLast.low < AnalyzedPrev.low)

C16_Witness ==
    /\ PriceActionReturned
    /\ ~fn_result.empty
    /\ AnalyzedLast.high = AnalyzedPrev.high
    /\ AnalyzedLast.low > AnalyzedPrev.low
    /\ fn_result.trend_type = "ranging"

Min(a, b) == IF a <= b THEN a ELSE b

\* C17: the last candle is tagged doji iff body_percent < 10 and
\* range > 2*body; hammer iff body_percent < 20 and
\* min(open, close) - low > 2*body; shooting_star iff body_percent < 20 and
\* high - max(open, close) > 2*body; strong_candle iff body_percent > 70; the
\* tags are decided independently.
C17_PatternTags ==
    (PriceActionReturned /\ ~fn_result.empty) =>
        LET k     == AnalyzedLast
            body  == Abs(k.close - k.open)
            range == k.high - k.low
            \* body_percent = 100*body/range, 0 when the range is not positive
            below(n) == IF range > 0 THEN 100 * body < n * range ELSE TRUE
            above(n) == IF range > 0 THEN 100 * body > n * range ELSE FALSE
        IN  /\ "doji" \in fn_result.patterns <=> (below(10) /\ range > 2 * body)
            /\ "hammer" \in fn_result.patterns <=>
                   (below(20) /\ Min(k.open, k.close) - k.low > 2 * body)
            /\ "shooting_star" \in fn_result.patterns <=>
                   (below(20) /\ k.high - Max(k.open, k.close) > 2 * body)
            /\ "strong_candle" \in fn_result.patterns <=> above(70)
            /\ fn_result.body_percent < 10 * ScoreUnit <=> below(10)
            /\ fn_result.body_percent < 20 * ScoreUnit <=> below(20)

C17_Witness ==
    /\ PriceActionReturned
    /\ ~fn_result.empty
    /\ AnalyzedLast.close < AnalyzedLast.open
    /\ fn_result.body_percent >= 10 * ScoreUnit
    /\ fn_result.patterns = {"hammer"}

\* ------------------------------------------------------------------ the factor scores
\* A value in [-1,1], in hundredths, or None.
UnitInterval == {None} \cup {Some(x) : x \in -100..100}

OptionalPrices == {None} \cup {Some(p) : p \in Prices}

\* MACD values about zero, or None.
OptionalMacd == {None, Some(-1), Some(0), Some(1)}

\* Every price-action dict: the empty one, and every combination of direction
\* flags, pattern tags and trend.
PriceActionDicts ==
    {EmptyDict}
    \cup {[empty |-> FALSE, is_bullish |-> up, is_bearish |-> down, body_percent |-> 0,
           patterns |-> tags, trend_type |-> trend, close_position |-> Frac(1, 2)] :
              up \in BOOLEAN, down \in BOOLEAN,
              tags \in SUBSET {"doji", "hammer", "shooting_star", "strong_candle"},
              trend \in {"uptrend", "downtrend", "ranging"}}

ScoreCalls ==
    {Call("_analyze_rsi",
          <<TechnicalIndicators(r, None, None, None, None, None, None, None, None, None)>>) :
        r \in {None} \cup {Some(Frac(v, 1)) : v \in 0..100}}
    \cup {Call("_analyze_macd",
               <<TechnicalIndicators(None, m, g, h, None, None, None, None, None, None)>>) :
             m \in OptionalMacd, g \in OptionalMacd, h \in OptionalMacd}
    \cup {Call("_analyze_price_action", <<pa>>) : pa \in PriceActionDicts}
    \cup {Call("_analyze_moving_averages",
               <<c, TechnicalIndicators(None, None, None, None, a, b, None, None, None, None)>>) :
             c \in Prices, a \in OptionalPrices, b \in OptionalPrices}
    \cup {Call("_analyze_bollinger_bands",
               <<c, TechnicalIndicators(None, None, None, None, None, None, u, m, l, None)>>) :
             c \in Prices, u \in OptionalPrices, m \in OptionalPrices,
             l \in OptionalPrices}
    \cup {Call("_analyze_news_sentiment", <<x>>) : x \in UnitInterval}
    \cup {Call("_analyze_ml_prediction", <<x>>) : x \in UnitInterval}

InitScore ==
    /\ SigIdle
    /\ RsiIdle
    /\ TestIdle
    /\ fn_call \in ScoreCalls
    /\ fn_pc = "call"
    /\ fn_result = None
    /\ th = None
    /\ MainIdle
    /\ WebIdle

AnalyzeRsi == Return("_analyze_rsi", _analyze_rsi(fn_call.args[1]))

AnalyzeMacd == Return("_analyze_macd", _analyze_macd(fn_call.args[1]))

AnalyzeFactorPriceAction ==
    Return("_analyze_price_action", _analyze_price_action(fn_call.args[1]))

AnalyzeMovingAverages ==
    Return("_analyze_moving_averages",
           _analyze_moving_averages(fn_call.args[1], fn_call.args[2]))

AnalyzeBollingerBands ==
    Return("_analyze_bollinger_bands",
           _analyze_bollinger_bands(fn_call.args[1], fn_call.args[2]))

AnalyzeNewsSentiment ==
    Return("_analyze_news_sentiment", _analyze_news_sentiment(fn_call.args[1]))

AnalyzeMlPrediction ==
    Return("_analyze_ml_prediction", _analyze_ml_prediction(fn_call.args[1]))

NextScore ==
    \/ AnalyzeRsi
    \/ AnalyzeMacd
    \/ AnalyzeFactorPriceAction
    \/ AnalyzeMovingAverages
    \/ AnalyzeBollingerBands
    \/ AnalyzeNewsSentiment
    \/ AnalyzeMlPrediction

SpecScore == InitScore /\ [][NextScore]_vars

\* The factor functions, and whether the input a call's score rests on is absent.
FactorFunctions ==
    {"_analyze_rsi", "_analyze_macd", "_analyze_price_action",
     "_analyze_moving_averages", "_analyze_bollinger_bands",
     "_analyze_news_sentiment", "_analyze_ml_prediction"}

FactorInputAbsent ==
    LET a == fn_call.args
    IN  CASE fn_call.fn = "_analyze_rsi" -> IsNone(a[1].rsi)
          [] fn_call.fn = "_analyze_macd" -> IsNone(a[1].macd) \/ IsNone(a[1].macd_signal)
          [] fn_call.fn = "_analyze_price_action" -> a[1].empty
          [] fn_call.fn = "_analyze_moving_averages" ->
                 IsNone(a[2].sma_20) \/ IsNone(a[2].sma_50)
          [] fn_call.fn = "_analyze_bollinger_bands" ->
                 IsNone(a[2].bollinger_upper) \/ IsNone(a[2].bollinger_lower)
          [] OTHER -> IsNone(a[1])

\* C18: each of the seven factor functions returns a score in [0,100] for
\* every in-range input, and exactly 50 (nothing raised, nothing appended to
\* indicators_used) when its indicator or input is absent.
C18_FactorScoresInRange ==
    (fn_pc = "return" /\ fn_call.fn \in FactorFunctions) =>
        /\ fn_result.score >= 0
        /\ fn_result.score <= 100 * ScoreUnit
        /\ FactorInputAbsent =>
               (fn_result.score = 50 * ScoreUnit /\ fn_result.used = <<>>)

C18_Witness ==
    /\ Returns("_analyze_price_action")
    /\ ~FactorInputAbsent
    /\ fn_result.score = 95 * ScoreUnit

\* ------------------------------------------------------------------ concurrent analyses
\* Two analyses, one per symbol, each calling calculate_all_indicators (twice,
\* on the same candles) and then generate_signal, their steps interleaved.
\* generate_signal is cut where it touches indicators_used: the list is
\* created (line 49), the seven _analyze_* calls append to it (lines 52-62),
\* the TradeSignal takes it (line 113).  The TradeSignal's symbol, reasoning
\* and timestamp (the clock at line 114) stay outside the model's TradeSignal.
Symbols == {"SPY", "BTC-USD"}

\* Too few candles, the minimum, and enough for RSI and ATR, for the bands and
\* sma_20: a flat market at 2, then a rising or a falling candle.
AnalysisCandleLists ==
    {CandleList(n, Candle(2, 2, 2, 2), last) :
        n \in {4, 5, 16, 21}, last \in {Candle(2, 3, 2, 3), Candle(2, 2, 1, 1)}}

\* Mutant of indicators_used_of: one list, shared by every call.
indicators_used_of_Shared(symbol) == "SPY"

\* Whose list a call of generate_signal appends to: its own, created at line 49.
indicators_used_of(symbol) == symbol

InitPure ==
    /\ SigIdle
    /\ RsiIdle
    /\ TestIdle
    /\ fn_pc = "idle"
    /\ fn_call = None
    /\ fn_result = None
    /\ MainIdle
    /\ WebIdle
    /\ th \in [Symbols -> {[pc |-> "indicators", candles |-> cs, ml_prediction |-> ml,
                             snapshots |-> <<>>, indicators_used |-> <<>>,
                             signal |-> None] :
                               cs \in AnalysisCandleLists,
                               ml \in {None, Some(-100), Some(100)}}]

thUnchanged == UNCHANGED <<sigVars, rsiVars, testVars, fnVars, appVars>>

\* calculate_all_indicators(candles), called a first and a second time.
AnalysisIndicators(symbol) ==
    /\ th[symbol].pc = "indicators"
    /\ th' = [th EXCEPT
                 ![symbol].snapshots =
                     Append(@, calculate_all_indicators(th[symbol].candles)),
                 ![symbol].pc = IF Len(th[symbol].snapshots) = 1 THEN "signal"
                                                                 ELSE "indicators"]
    /\ thUnchanged

\* generate_signal, lines 43-49: the length check, then indicators_used = [].
AnalysisBegin(symbol) ==
    /\ th[symbol].pc = "signal"
    /\ IF TooFewCandles(th[symbol].candles)
       THEN th' = [th EXCEPT ![symbol].signal = None, ![symbol].pc = "done"]
       ELSE th' = [th EXCEPT ![indicators_used_of(symbol)].indicators_used = <<>>,
                             ![symbol].pc = "score"]
    /\ thUnchanged

AnalysisLocals(symbol) ==
    SignalLocals(th[symbol].candles, th[symbol].snapshots[1], None,
                 th[symbol].ml_prediction, None)

\* Lines 52-62: the _analyze_* calls append to indicators_used.
AnalysisScore(symbol) ==
    /\ th[symbol].pc = "score"
    /\ th' = [th EXCEPT
                 ![indicators_used_of(symbol)].indicators_used =
                     @ \o AnalysisLocals(symbol).indicators_used,
                 ![symbol].pc = "build"]
    /\ thUnchanged

\* Lines 64-117: the cutoff, then the TradeSignal with indicators_used.
AnalysisBuild(symbol) ==
    /\ th[symbol].pc = "build"
    /\ LET f == AnalysisLocals(symbol)
           used == th[indicators_used_of(symbol)].indicators_used
       IN  th' = [th EXCEPT
                     ![symbol].signal =
                         IF BelowCutoff(f.total_confidence) THEN None
                         ELSE Some([TradeSignal(f) EXCEPT !.indicators_used = used]),
                     ![symbol].pc = "done"]
    /\ thUnchanged

NextPure ==
    \E symbol \in Symbols :
        \/ AnalysisIndicators(symbol)
        \/ AnalysisBegin(symbol)
        \/ AnalysisScore(symbol)
        \/ AnalysisBuild(symbol)

SpecPure == InitPure /\ [][NextPure]_vars

\* What an analysis returns when it runs alone on its inputs.
AloneSnapshot(symbol) == calculate_all_indicators(th[symbol].candles)

AloneSignal(symbol) ==
    generate_signal(th[symbol].candles, AloneSnapshot(symbol), None,
                    th[symbol].ml_prediction, None)

AnalysesAsAlone ==
    \A symbol \in Symbols :
        /\ \A i \in 1..Len(th[symbol].snapshots) :
               th[symbol].snapshots[i] = AloneSnapshot(symbol)
        /\ th[symbol].pc = "done" => th[symbol].signal = AloneSignal(symbol)

\* No step changes a candle list or a snapshot already returned.
InputsKept ==
    \A symbol \in Symbols :
        /\ th'[symbol].candles = th[symbol].candles
        /\ th'[symbol].ml_prediction = th[symbol].ml_prediction
        /\ \A i \in 1..Len(th[symbol].snapshots) :
               th'[symbol].snapshots[i] = th[symbol].snapshots[i]

ML_CONF_UNIT == 10000

\* np.tanh on hundredths: 1 and -1 from 3 on, and between them the rational
\* approximation x(27 + x^2)/(27 + 9x^2), which is increasing, 0 at 0 and
\* within [-1,1].
Tanh(x) ==
    IF x >= 300 THEN 100
    ELSE IF x <= -300 THEN -100
    ELSE (x * (270000 + x * x)) \div (270000 + 9 * x * x)

\* Mutant of Clamp: the value as it is.
Clamp_Not(x) == x

\* max(min(x, 1.0), -1.0), on hundredths
Clamp(x) == IF x > 100 THEN 100 ELSE IF x < -100 THEN -100 ELSE x

\* np.polyfit(range(n), ys, 1)[0]: the least-squares slope, in thousandths,
\* for n >= 2.
PolyfitSlope(ys) ==
    LET n   == Len(ys)
        sx  == SumSeq([i \in 1..n |-> i - 1])
        sxx == SumSeq([i \in 1..n |-> (i - 1) * (i - 1)])
        sy  == SumSeq(ys)
        sxy == SumSeq([i \in 1..n |-> (i - 1) * ys[i]])
    IN  ((n * sxy - sx * sy) * 1000) \div (n * sxx - sx * sx)

\* <<prediction, confidence>>, for positive prices and lookback >= 2
predict_next_move(ps, lookback) ==
    IF Len(ps) < lookback + 1 THEN <<None, 0>>
    ELSE LET recent_prices == LastN(ps, lookback)
             trend      == PolyfitSlope(recent_prices)
             returns    == [i \in 1..(lookback - 1) |->
                               ((recent_prices[i + 1] - recent_prices[i]) * 1000)
                                   \div recent_prices[i]]
             volatility == Std(returns)
             prediction == IF volatility > 0 THEN Tanh((trend * 100) \div volatility)
                                             ELSE 0
             \* abs(trend) / (volatility + 0.0001), over 10, in 1/10000
             strength   == IF volatility > 0
                           THEN (Abs(trend) * ML_CONF_UNIT) \div (volatility * 10 + 1)
                           ELSE 500
         IN  <<Some(prediction), IF strength > ML_CONF_UNIT THEN ML_CONF_UNIT ELSE strength>>

\* The two fields of a Candle that predict_with_features reads.
MlCandle(close, volume) == [close |-> close, volume |-> volume]

\* The features present, each <<value in hundredths, weight in hundredths>>,
\* in the order of lines 86-123; base is predict_next_move's result.
MlFeatures(cs, indicators, sentiment, base) ==
    LET last_price == cs[Len(cs)].close
        macd_hist  == IF ~IsNone(indicators.macd_histogram) THEN indicators.macd_histogram
                      ELSE IF ~IsNone(indicators.macd) /\ ~IsNone(indicators.macd_signal)
                      THEN Some(Val(indicators.macd) - Val(indicators.macd_signal))
                      ELSE None
        volumes    == [i \in 1..Len(cs) |-> cs[i].volume]
        recent     == IF Len(volumes) > 20 THEN LastN(volumes, 20) ELSE volumes
        total      == SumSeq(recent)
        rsi_value  == indicators.rsi
    IN  (IF ~IsNone(base[1]) THEN <<(<<Val(base[1]), 35>>)>> ELSE <<>>)
        \o (IF ~IsNone(rsi_value)
               THEN <<(<<(100 * (Val(rsi_value)[1] - 50 * Val(rsi_value)[2])) \div (50 * Val(rsi_value)[2]),
                         15>>)>>
               ELSE <<>>)
        \o (IF ~IsNone(macd_hist) /\ last_price # 0
               THEN <<(<<Tanh((Val(macd_hist) * 20000) \div last_price), 15>>)>>
               ELSE <<>>)
        \o (IF ~IsNone(indicators.sma_20) /\ ~IsNone(indicators.sma_50) /\ last_price # 0
               THEN <<(<<Tanh(((last_price - Val(indicators.sma_20)) * 500) \div last_price)
                           + (IF Val(indicators.sma_20) > Val(indicators.sma_50)
                                 THEN 20 ELSE -20),
                         15>>)>>
               ELSE <<>>)
        \o (IF last_price # 0 /\ total > 0
               THEN <<(<<Tanh((recent[Len(recent)] * Len(recent) * 100) \div total - 100),
                         10>>)>>
               ELSE <<>>)
        \o (IF ~IsNone(sentiment) THEN <<(<<Tanh(Val(sentiment)), 10>>)>> ELSE <<>>)

\* <<prediction, confidence>>, for positive prices and lookback >= 2
predict_with_features(cs, indicators, sentiment, lookback) ==
    IF Len(cs) = 0 \/ Len(cs) < Max(lookback, 5) THEN <<None, 0>>
    ELSE LET base     == predict_next_move(Closes(cs), lookback)
             features == MlFeatures(cs, indicators, sentiment, base)
             n        == Len(features)
         IN  IF n = 0 THEN <<None, 0>>
             ELSE LET total_weight == SumSeq([i \in 1..n |-> features[i][2]])
                      weighted     == SumSeq([i \in 1..n |-> features[i][1] * features[i][2]])
                      prediction   == Clamp(weighted \div total_weight)
                      \* abs(prediction)*0.8 + (n/6)*0.2, capped at 1
                      own          == Abs(prediction) * 80 + (n * 2000) \div 6
                      capped       == IF own > ML_CONF_UNIT THEN ML_CONF_UNIT ELSE own
                      blended      == (capped + base[2]) \div 2
                  IN  <<Some(prediction),
                        IF IsNone(base[1]) THEN capped
                        ELSE IF blended > ML_CONF_UNIT THEN ML_CONF_UNIT ELSE blended>>

\* Every price series over Prices up to two longer than the longest period.
MlPriceSeqs == UNION {[1..n -> Prices] : n \in 0..(MaxPeriod + 2)}

\* Candle series of 4 to 6 candles: one close, then a last close; no volume,
\* a steady volume, or a steady volume and a last candle with three times it.
MlCandleLists ==
    {[i \in 1..n |-> MlCandle(IF i = n THEN last ELSE prev,
                              IF i = n THEN v[2] ELSE v[1])] :
        n \in 4..6, prev \in Prices, last \in Prices,
        v \in {<<0, 0>>, <<1, 1>>, <<1, 3>>}}

\* Indicator snapshots as predict_with_features reads them.
MlIndicators ==
    {TechnicalIndicators(r, m[1], m[2], m[3], a[1], a[2], None, None, None, None) :
        r \in {None, Some(Frac(0, 1)), Some(Frac(50, 1)), Some(Frac(100, 1))},
        m \in MacdValues, a \in SmaValues}

MlCalls ==
    {Call("predict_next_move", <<ps, lookback>>) :
        ps \in MlPriceSeqs, lookback \in 2..(MaxPeriod + 1)}
    \cup {Call("predict_with_features", <<cs, t, x, lookback>>) :
              cs \in MlCandleLists, t \in MlIndicators, x \in Sentiments,
              lookback \in {2, 5, 6}}

InitMl ==
    /\ SigIdle
    /\ RsiIdle
    /\ TestIdle
    /\ fn_call \in MlCalls
    /\ fn_pc = "call"
    /\ fn_result = None
    /\ th = None
    /\ MainIdle
    /\ WebIdle

PredictNextMove ==
    Return("predict_next_move", predict_next_move(fn_call.args[1], fn_call.args[2]))

PredictWithFeatures ==
    Return("predict_with_features",
           predict_with_features(fn_call.args[1], fn_call.args[2], fn_call.args[3],
                                 fn_call.args[4]))

NextMl == PredictNextMove \/ PredictWithFeatures

SpecMl == InitMl /\ [][NextMl]_vars

\* A returned <<prediction, confidence>>: absent, or within [-1,1] and [0,1].
PredictionInRange(result) ==
    /\ result[2] >= 0
    /\ result[2] <= ML_CONF_UNIT
    /\ IsNone(result[1]) \/ (Val(result[1]) >= -100 /\ Val(result[1]) <= 100)

\* The one feature of a predict_with_features call that has no other: the
\* sentiment alone (no base prediction, no indicators, no volume).
OnlySentiment ==
    /\ Returns("predict_with_features")
    /\ Len(fn_call.args[1]) = fn_call.args[4]
    /\ Len(fn_call.args[1]) >= 5
    /\ fn_call.args[2] = NoIndicators
    /\ \A i \in 1..Len(fn_call.args[1]) : fn_call.args[1][i].volume = 0
    /\ ~IsNone(fn_call.args[3])

\* C20: every prediction of MLPredictor is absent or has its direction in
\* [-1,1] and its confidence in [0,1]; predict_next_move is absent exactly
\* when len(prices) < lookback+1; predict_with_features clamps the blend, for
\* every subset of present features, and divides by the weights actually used
\* (a single feature is returned as it is).
C20_PredictionsInRange ==
    /\ Returns("predict_next_move") =>
           /\ PredictionInRange(fn_result)
           /\ IsNone(fn_result[1]) <=> Len(fn_call.args[1]) < fn_call.args[2] + 1
    /\ Returns("predict_with_features") => PredictionInRange(fn_result)
    /\ OnlySentiment => fn_result[1] = Some(Tanh(Val(fn_call.args[3])))

\* The moving-average feature alone with a volume spike: a blend above 1,
\* returned as 1.
C20_Witness ==
    /\ Returns("predict_with_features")
    /\ Len(fn_call.args[1]) = fn_call.args[4]
    /\ IsNone(fn_call.args[2].rsi)
    /\ IsNone(fn_call.args[2].macd)
    /\ ~IsNone(fn_call.args[2].sma_20)
    /\ IsNone(fn_call.args[3])
    /\ fn_call.args[1][Len(fn_call.args[1])].volume = 3
    /\ fn_result[1] = Some(100)

Locals == Val(frame)

\* Scores the news factor can take: 25, 50 and 75 points.
NewsScores == {25 * ScoreUnit, 50 * ScoreUnit, 75 * ScoreUnit}

FactorNames ==
    <<"AI_Prediction", "RSI", "MACD", "MA", "BB", "Price_Action", "News_Sentiment">>

\* The data a factor reads is present: every field its None test looks at.
FactorPresent(name) ==
    CASE name = "AI_Prediction"  -> ~IsNone(ml_prediction)
      [] name = "RSI"            -> ~IsNone(technical_indicators.rsi)
      [] name = "MACD"           -> /\ ~IsNone(technical_indicators.macd)
                                    /\ ~IsNone(technical_indicators.macd_signal)
      [] name = "MA"             -> /\ ~IsNone(technical_indicators.sma_20)
                                    /\ ~IsNone(technical_indicators.sma_50)
      [] name = "BB"             -> /\ ~IsNone(technical_indicators.bollinger_upper)
                                    /\ ~IsNone(technical_indicators.bollinger_lower)
      [] name = "Price_Action"   -> Len(candles) >= 3
      [] name = "News_Sentiment" -> ~IsNone(news_sentiment)

\* The position of a name in FactorNames.
FactorIndex(name) == CHOOSE i \in 1..Len(FactorNames) : FactorNames[i] = name

\* C30: in every TradeSignal returned by generate_signal, indicators_used holds a
\* factor name iff that factor's data was present, holds no name twice and
\* lists the names in the order AI_Prediction, RSI, MACD, MA, BB, Price_Action,
\* News_Sentiment.
C30_IndicatorsUsed ==
    (Returned /\ ~IsNone(signal)) =>
        LET used == Val(signal).indicators_used
        IN  /\ \A i \in 1..Len(FactorNames) :
                   (\E j \in 1..Len(used) : used[j] = FactorNames[i])
                       <=> FactorPresent(FactorNames[i])
            /\ \A j \in 1..Len(used) : \E i \in 1..Len(FactorNames) : used[j] = FactorNames[i]
            /\ \A j, k \in 1..Len(used) :
                   j < k => FactorIndex(used[j]) < FactorIndex(used[k])

\* A signal built from all seven factors.
C30_Witness ==
    /\ Returned
    /\ ~IsNone(signal)
    /\ Val(signal).indicators_used = FactorNames

\* ------------------------------------------------------------------ main.py
\* config.SYMBOLS, in the order the loops walk it.
SYMBOLS == <<"SPY", "BTC-USD">>

\* How many passes run(once=False) makes before only an interrupt can follow.
MaxPasses == 2

\* What one iteration of analyze_all_symbols can meet (lines 67-76):
\* analyze_symbol returns a signal, returns None (no candles, or generate_signal
\* returned None), raises, or returns a signal that print_signal then fails on
\* (line 136 divides by entry_price - stop_loss).
AnalysisOutcomes == {"signal", "none", "raise", "print_raise"}

\* The signal of the k-th append: its symbol and the time it was made.
HistorySignal(symbol, k) == [symbol |-> symbol, timestamp |-> k]

\* TradeSignal.to_dict: asdict, the timestamp in ISO format.
to_dict(s) == [symbol |-> s.symbol, timestamp |-> <<"isoformat", s.timestamp>>]

\* Mutant of FirstSeen: a later entry of the same symbol overwrites the earlier.
FirstSeen_Overwrite(latest, s) ==
    IF \E j \in 1..Len(latest) : latest[j].symbol = s.symbol
    THEN [j \in 1..Len(latest) |-> IF latest[j].symbol = s.symbol THEN to_dict(s)
                                                                   ELSE latest[j]]
    ELSE Append(latest, to_dict(s))

\* Lines 162-163: a symbol is entered into latest_signals when first met.
FirstSeen(latest, s) ==
    IF \E j \in 1..Len(latest) : latest[j].symbol = s.symbol
    THEN latest
    ELSE Append(latest, to_dict(s))

\* The loop of lines 161-163 from position k of the history down to 1; the
\* dict's values in insertion order.
RECURSIVE LatestFrom(_, _, _)
LatestFrom(history, k, latest) ==
    IF k = 0 THEN latest
    ELSE LatestFrom(history, k - 1, FirstSeen(latest, history[k]))

get_latest_signals(history) == LatestFrom(history, Len(history), <<>>)

\* Mutant of AfterPass: no break, the loop sleeps and goes round again.
AfterPass_NoBreak(once) == "sleep"

\* Lines 49-53: after a pass, break if once, else sleep.
AfterPass(once) == IF once THEN "finally" ELSE "sleep"

\* Mutant of AfterFailure: the failure leaves the for loop.
AfterFailure_LeaveLoop(i) == Len(SYMBOLS) + 1

\* The except clauses inside the for loops (main.py lines 75-76, app.py lines
\* 358-360) log the failure; the loop goes on with the next symbol.
AfterFailure(i) == i + 1

InitMain ==
    /\ running = FALSE
    /\ signals_history = <<>>
    /\ latest_signals = None
    /\ run_frame = [pc |-> "init", once |-> FALSE, i |-> 0, passes |-> 0,
                    attempted |-> <<>>, failed |-> FALSE, interrupted |-> FALSE]

InMain == run_frame # None

mainUnchanged == UNCHANGED <<sigVars, rsiVars, testVars, fnVars, th, webVars>>

\* run(once), lines 42-43.
Run(once) ==
    /\ InMain
    /\ run_frame.pc = "init"
    /\ running' = TRUE
    /\ run_frame' = [run_frame EXCEPT !.pc = "while", !.once = once]
    /\ UNCHANGED <<signals_history, latest_signals>>
    /\ mainUnchanged

\* Line 46: while self.running, then the call of analyze_all_symbols.
RunWhile ==
    /\ InMain
    /\ run_frame.pc = "while"
    /\ run_frame.passes < MaxPasses
    /\ run_frame' = IF running
                    THEN [run_frame EXCEPT !.pc = "for", !.i = 1, !.attempted = <<>>]
                    ELSE [run_frame EXCEPT !.pc = "finally"]
    /\ UNCHANGED <<running, signals_history, latest_signals>>
    /\ mainUnchanged

\* Lines 66-76: one symbol of the for loop, inside its try.
AnalyzeSymbol ==
    /\ InMain
    /\ run_frame.pc = "for"
    /\ run_frame.i <= Len(SYMBOLS)
    /\ \E outcome \in AnalysisOutcomes :
        /\ signals_history' =
               IF outcome \in {"signal", "print_raise"}
               THEN Append(signals_history,
                           HistorySignal(SYMBOLS[run_frame.i], Len(signals_history) + 1))
               ELSE signals_history
        /\ run_frame' = [run_frame EXCEPT
                            !.i = IF outcome \in {"raise", "print_raise"}
                                  THEN AfterFailure(@) ELSE @ + 1,
                            !.attempted = Append(@, SYMBOLS[run_frame.i]),
                            !.failed = @ \/ outcome \in {"raise", "print_raise"}]
    /\ UNCHANGED <<running, latest_signals>>
    /\ mainUnchanged

\* analyze_all_symbols returns; lines 49-53: break if once, else sleep.
AnalyzeAllSymbolsReturn ==
    /\ InMain
    /\ run_frame.pc = "for"
    /\ run_frame.i > Len(SYMBOLS)
    /\ run_frame' = [run_frame EXCEPT !.passes = @ + 1,
                                      !.pc = AfterPass(run_frame.once)]
    /\ UNCHANGED <<running, signals_history, latest_signals>>
    /\ mainUnchanged

\* time.sleep(config.UPDATE_INTERVAL) returns.
RunSleep ==
    /\ InMain
    /\ run_frame.pc = "sleep"
    /\ run_frame' = [run_frame EXCEPT !.pc = "while"]
    /\ UNCHANGED <<running, signals_history, latest_signals>>
    /\ mainUnchanged

\* Ctrl+C anywhere inside the try of run: lines 55-56, then the finally clause.
KeyboardInterrupt ==
    /\ InMain
    /\ run_frame.pc \in {"while", "for", "sleep"}
    /\ run_frame' = [run_frame EXCEPT !.pc = "finally", !.interrupted = TRUE]
    /\ UNCHANGED <<running, signals_history, latest_signals>>
    /\ mainUnchanged

\* Lines 59-60 and 152-155: finally, self.stop(); run returns.
Stop ==
    /\ InMain
    /\ run_frame.pc = "finally"
    /\ running' = FALSE
    /\ run_frame' = [run_frame EXCEPT !.pc = "returned"]
    /\ UNCHANGED <<signals_history, latest_signals>>
    /\ mainUnchanged

\* A call of get_latest_signals; `at` is the length of the history it read.
GetLatestSignals ==
    /\ InMain
    /\ latest_signals' = Some([list |-> get_latest_signals(signals_history),
                               at |-> Len(signals_history)])
    /\ latest_signals' # latest_signals
    /\ UNCHANGED <<running, signals_history, run_frame>>
    /\ mainUnchanged

NextMain ==
    \/ \E once \in BOOLEAN : Run(once)
    \/ RunWhile
    \/ AnalyzeSymbol
    \/ AnalyzeAllSymbolsReturn
    \/ RunSleep
    \/ KeyboardInterrupt
    \/ Stop
    \/ GetLatestSignals

\* ------------------------------------------------------------------ app.py
\* How many HTTP requests arrive, and how many candle fetches return data.
MaxRequests == 2
MaxFetches == 3

\* The symbols a request names: one of dashboard_data's keys, and one that is not.
RequestSymbols == {"SPY", "QQQ"}

\* The requests that arrive: the route and the symbol in its path, if it has one.
Arrivals ==
    {<<"start-updates", "">>, <<"stop-updates", "">>}
    \cup {<<route, symbol>> : route \in {"manual-update", "signal"},
                              symbol \in RequestSymbols}

\* An entry of dashboard_data as the module creates it (lines 26-39): no
\* candles (0), no indicators (0), no signal, no sentiment, never updated.
InitialEntry ==
    [candles |-> 0, indicators |-> 0, signal |-> None, news_sentiment |-> None,
     last_updated |-> None]

\* What one update of a symbol can meet (lines 321-360, 400-455): all goes well;
\* generate_signal returns None; the fetch returns no candles; the indicators,
\* the news or the signal generation raise.
UpdateOutcomes ==
    {"ok", "no_signal", "empty", "indicators_raise", "news_raise", "signal_raise"}

\* The neutral sentiment dict of lines 417-424.
NEUTRAL_SENTIMENT == 0

\* The locals of an update whose fetch was the k-th to return data: candles,
\* the indicators and the sentiment computed from them, and the signal; with
\* them, what the update met on the way.
UpdateLocals(k, outcome) ==
    [outcome    |-> outcome,
     candles    |-> k,
     indicators |-> k,
     sentiment  |-> IF outcome = "news_raise" THEN Some(NEUTRAL_SENTIMENT) ELSE Some(k),
     signal     |-> IF outcome = "no_signal" THEN None ELSE Some(k)]

\* Mutant of CacheEntry: the fields are stored into the entry that is there, the
\* sentiment and the time left as they were.
CacheEntry_Merge(old, u) ==
    [old EXCEPT !.candles = u.candles, !.indicators = u.indicators, !.signal = u.signal]

\* The dict assigned to dashboard_data[symbol] (lines 346-352, 436-442).
CacheEntry(old, u) ==
    [candles |-> u.candles, indicators |-> u.indicators, signal |-> u.signal,
     news_sentiment |-> u.sentiment, last_updated |-> Some(u.candles)]

\* Mutant of LoopContinues: while True.
LoopContinues_Always(flag) == TRUE

\* The while test of update_dashboard_data (line 316).
LoopContinues(flag) == flag

\* The outcomes after which the background update reaches its store: any
\* exception, the news' included, goes to the except clause of line 358.
LoopProceeds(outcome) == outcome \in {"ok", "no_signal"}

\* Mutant of ManualProceeds: only an empty fetch keeps the store from running.
ManualProceeds_Unchecked(outcome) == outcome # "empty"

\* The outcomes after which manual_update reaches its store: a failure of the
\* news is caught at line 415.
ManualProceeds(outcome) == outcome \in {"ok", "no_signal", "news_raise"}

\* A thread on update_dashboard_data, at the while test.
UpdateThread ==
    [pc |-> "while", i |-> 0, locals |-> None, attempted |-> <<>>, failed |-> FALSE]

\* A request as it arrives.
Request(route, symbol) ==
    [route |-> route, symbol |-> symbol, pc |-> "begin", locals |-> None,
     outcome |-> "", wrote |-> FALSE, status |-> 0, body |-> None]

\* The server as dashboard.py starts it (create_app, no updates running) or as
\* app.py's __main__ block starts it (lines 485-487: one thread running).
InitWeb ==
    /\ dashboard_data = [s \in Symbols |-> InitialEntry]
    /\ requests = <<>>
    /\ fetches = 0
    /\ cache_writes = [s \in Symbols |-> <<>>]
    /\ \/ /\ is_running = FALSE
          /\ update_threads = <<>>
       \/ /\ is_running = TRUE
          /\ update_threads = <<UpdateThread>>

InWeb == dashboard_data # None

webUnchanged == UNCHANGED <<sigVars, rsiVars, testVars, fnVars, th, mainVars>>

Threads == 1..Len(update_threads)

Pending == 1..Len(requests)

\* The store of lines 346 and 436, by an update with locals u.
Store(symbol, u) ==
    /\ dashboard_data' = [dashboard_data EXCEPT ![symbol] = CacheEntry(@, u)]
    /\ cache_writes' = [cache_writes EXCEPT ![symbol] = Append(@, u)]

\* ---- update_dashboard_data, one thread
\* Line 316: while is_running; a cycle begins or the thread ends.
LoopWhile(t) ==
    /\ InWeb
    /\ update_threads[t].pc = "while"
    /\ update_threads' = [update_threads EXCEPT
                             ![t] = IF LoopContinues(is_running)
                                    THEN [@ EXCEPT !.pc = "for", !.i = 1,
                                                   !.attempted = <<>>]
                                    ELSE [@ EXCEPT !.pc = "done"]]
    /\ UNCHANGED <<dashboard_data, is_running, requests, fetches, cache_writes>>
    /\ webUnchanged

\* Lines 321-343 and 355-360 for the symbol at hand: fetch, indicators, news,
\* signal.  A failure is logged and the loop goes on to the next symbol.
LoopUpdate(t) ==
    /\ InWeb
    /\ update_threads[t].pc = "for"
    /\ update_threads[t].i <= Len(SYMBOLS)
    /\ \E outcome \in UpdateOutcomes :
        /\ outcome # "empty" => fetches < MaxFetches
        /\ fetches' = IF outcome = "empty" THEN fetches ELSE fetches + 1
        /\ update_threads' = [update_threads EXCEPT
               ![t] = IF LoopProceeds(outcome)
                      THEN [@ EXCEPT !.pc = "write",
                                     !.locals = Some(UpdateLocals(fetches + 1, outcome)),
                                     !.attempted = Append(@, SYMBOLS[update_threads[t].i])]
                      ELSE [@ EXCEPT !.i = AfterFailure(@), !.failed = TRUE,
                                     !.attempted = Append(@, SYMBOLS[update_threads[t].i])]]
    /\ UNCHANGED <<dashboard_data, is_running, requests, cache_writes>>
    /\ webUnchanged

\* Lines 346-354: the entry is assigned.
LoopWrite(t) ==
    /\ InWeb
    /\ update_threads[t].pc = "write"
    /\ Store(SYMBOLS[update_threads[t].i], Val(update_threads[t].locals))
    /\ update_threads' = [update_threads EXCEPT
                             ![t] = [@ EXCEPT !.pc = "for", !.i = @ + 1, !.locals = None]]
    /\ UNCHANGED <<is_running, requests, fetches>>
    /\ webUnchanged

\* The for loop is through; line 366: time.sleep.
LoopSleep(t) ==
    /\ InWeb
    /\ update_threads[t].pc = "for"
    /\ update_threads[t].i > Len(SYMBOLS)
    /\ update_threads' = [update_threads EXCEPT ![t] = [@ EXCEPT !.pc = "sleep"]]
    /\ UNCHANGED <<dashboard_data, is_running, requests, fetches, cache_writes>>
    /\ webUnchanged

\* time.sleep returns.
LoopWake(t) ==
    /\ InWeb
    /\ update_threads[t].pc = "sleep"
    /\ update_threads' = [update_threads EXCEPT ![t] = [@ EXCEPT !.pc = "while"]]
    /\ UNCHANGED <<dashboard_data, is_running, requests, fetches, cache_writes>>
    /\ webUnchanged

\* One step of thread t.
LoopStep(t) ==
    \/ LoopWhile(t)
    \/ LoopUpdate(t)
    \/ LoopWrite(t)
    \/ LoopSleep(t)
    \/ LoopWake(t)

\* ---- requests, each handled by a thread of the server
Arrive(route, symbol) ==
    /\ InWeb
    /\ Len(requests) < MaxRequests
    /\ requests' = Append(requests, Request(route, symbol))
    /\ UNCHANGED <<dashboard_data, is_running, update_threads, fetches, cache_writes>>
    /\ webUnchanged

\* The request answered with a status and a body.
Respond(r, status, body) == [r EXCEPT !.pc = "done", !.status = status, !.body = body]

AtRoute(n, route, pc) == requests[n].route = route /\ requests[n].pc = pc

\* start_updates, line 374: if not is_running.
StartTest(n) ==
    /\ InWeb
    /\ AtRoute(n, "start-updates", "begin")
    /\ requests' = [requests EXCEPT
                       ![n] = IF ~is_running
                              THEN [@ EXCEPT !.pc = "set"]
                              ELSE Respond(@, 200, Some("Updates already running"))]
    /\ UNCHANGED <<dashboard_data, is_running, update_threads, fetches, cache_writes>>
    /\ webUnchanged

\* Line 375: is_running = True.
StartSet(n) ==
    /\ InWeb
    /\ AtRoute(n, "start-updates", "set")
    /\ is_running' = TRUE
    /\ requests' = [requests EXCEPT ![n] = [@ EXCEPT !.pc = "thread"]]
    /\ UNCHANGED <<dashboard_data, update_threads, fetches, cache_writes>>
    /\ webUnchanged

\* Lines 376-379: the thread is created and started.
StartThread(n) ==
    /\ InWeb
    /\ AtRoute(n, "start-updates", "thread")
    /\ update_threads' = Append(update_threads, UpdateThread)
    /\ requests' = [requests EXCEPT ![n] = Respond(@, 200, Some("Updates started"))]
    /\ UNCHANGED <<dashboard_data, is_running, fetches, cache_writes>>
    /\ webUnchanged

\* stop_updates, lines 389-391.
StopUpdates(n) ==
    /\ InWeb
    /\ AtRoute(n, "stop-updates", "begin")
    /\ is_running' = FALSE
    /\ requests' = [requests EXCEPT ![n] = Respond(@, 200, Some("Updates stopped"))]
    /\ UNCHANGED <<dashboard_data, update_threads, fetches, cache_writes>>
    /\ webUnchanged

\* manual_update, lines 397-433 and 450-455.  A failure of the news is caught at
\* line 415 and replaced by the neutral sentiment; any other is answered 500.
ManualUpdate(n) ==
    /\ InWeb
    /\ AtRoute(n, "manual-update", "begin")
    /\ IF requests[n].symbol \notin DOMAIN dashboard_data
       THEN /\ requests' = [requests EXCEPT ![n] = Respond(@, 404, Some("Symbol not found"))]
            /\ UNCHANGED fetches
       ELSE \E outcome \in UpdateOutcomes :
            /\ outcome # "empty" => fetches < MaxFetches
            /\ fetches' = IF outcome = "empty" THEN fetches ELSE fetches + 1
            /\ requests' = [requests EXCEPT
                   ![n] = IF ManualProceeds(outcome)
                          THEN [@ EXCEPT !.pc = "write", !.outcome = outcome,
                                         !.locals = Some(UpdateLocals(fetches + 1, outcome))]
                          ELSE [Respond(@, 500, Some("error")) EXCEPT !.outcome = outcome]]
    /\ UNCHANGED <<dashboard_data, is_running, update_threads, cache_writes>>
    /\ webUnchanged

\* Lines 436-449: the entry is assigned, the answer is 200.
ManualWrite(n) ==
    /\ InWeb
    /\ AtRoute(n, "manual-update", "write")
    /\ Store(requests[n].symbol, Val(requests[n].locals))
    /\ requests' = [requests EXCEPT
                       ![n] = [Respond(@, 200, Some("success")) EXCEPT !.wrote = TRUE]]
    /\ UNCHANGED <<is_running, update_threads, fetches>>
    /\ webUnchanged

\* get_signal, lines 103-106: the signal is read from the entry.
GetSignal(n) ==
    /\ InWeb
    /\ AtRoute(n, "signal", "begin")
    /\ requests' = [requests EXCEPT
           ![n] = IF requests[n].symbol \notin DOMAIN dashboard_data
                  THEN Respond(@, 404, Some("Symbol not found"))
                  ELSE [@ EXCEPT !.pc = "indicators",
                                 !.locals = Some(dashboard_data[requests[n].symbol].signal)]]
    /\ UNCHANGED <<dashboard_data, is_running, update_threads, fetches, cache_writes>>
    /\ webUnchanged

\* Lines 107-126: the indicators are read from the entry, the answer is built.
GetSignalIndicators(n) ==
    /\ InWeb
    /\ AtRoute(n, "signal", "indicators")
    /\ requests' = [requests EXCEPT
           ![n] = Respond(@, 200,
                          Some([signal |-> Val(requests[n].locals),
                                technical_indicators |->
                                    dashboard_data[requests[n].symbol].indicators]))]
    /\ UNCHANGED <<dashboard_data, is_running, update_threads, fetches, cache_writes>>
    /\ webUnchanged

\* One step of the handler of request n.
Handle(n) ==
    \/ StartTest(n)
    \/ StartSet(n)
    \/ StartThread(n)
    \/ StopUpdates(n)
    \/ ManualUpdate(n)
    \/ ManualWrite(n)
    \/ GetSignal(n)
    \/ GetSignalIndicators(n)

NextWeb ==
    \/ \E t \in Threads : LoopStep(t)
    \/ \E a \in Arrivals : Arrive(a[1], a[2])
    \/ \E n \in Pending : Handle(n)

\* ------------------------------------------------------------------ either program
\* main.py is run, or the web server is.
InitApp ==
    /\ SigIdle
    /\ RsiIdle
    /\ TestIdle
    /\ fn_pc = "idle"
    /\ fn_call = None
    /\ fn_result = None
    /\ th = None
    /\ \/ InitMain /\ WebIdle
       \/ InitWeb /\ MainIdle

NextApp == NextMain \/ NextWeb

SpecApp == InitApp /\ [][NextApp]_vars

\* The scheduler lets every update thread run: a fetch returns or times out,
\* a sleep ends.
SpecAppLive == SpecApp /\ \A t \in 1..(MaxRequests + 1) : WF_vars(t \in Threads /\ LoopStep(t))

\* ------------------------------------------------------------------ the dashboard cache
\* The complete entry one update with locals u writes.
EntryOf(u) ==
    [candles |-> u.candles, indicators |-> u.indicators, signal |-> u.signal,
     news_sentiment |-> u.sentiment, last_updated |-> Some(u.candles)]

LastWrite(symbol) == cache_writes[symbol][Len(cache_writes[symbol])]

\* C22: the dashboard cache is last-write-wins per symbol.  Under every
\* interleaving of the background updater and manual updates of a symbol,
\* dashboard_data[symbol] is the complete entry (candles, indicators, signal,
\* news_sentiment, last_updated) of one single update, never a mixture of the
\* fields of two, and it is the entry of the update that wrote last.
C22_LastWriteWins ==
    InWeb =>
        \A symbol \in Symbols :
            dashboard_data[symbol] =
                IF cache_writes[symbol] = <<>> THEN InitialEntry
                                               ELSE EntryOf(LastWrite(symbol))

\* A manual update and a background update of SPY overlapped: the one that
\* fetched first wrote last, and its entry is the one in the cache.
C22_Witness ==
    /\ InWeb
    /\ Len(cache_writes["SPY"]) = 2
    /\ cache_writes["SPY"][1].candles > cache_writes["SPY"][2].candles
    /\ \E n \in Pending : /\ requests[n].route = "manual-update"
                          /\ requests[n].wrote
                          /\ requests[n].locals = Some(cache_writes["SPY"][1])
    /\ dashboard_data["SPY"].candles = cache_writes["SPY"][2].candles
    /\ dashboard_data["SPY"].news_sentiment = cache_writes["SPY"][2].sentiment

\* ------------------------------------------------------------------ SpyTradeApp
RunReturned == InMain /\ run_frame.pc = "returned"

\* C23: run(once=True) makes exactly one analyze_all_symbols pass over the
\* configured symbols and then ends with running = False; run(once=False)
\* repeats the pass until it is interrupted; in every case running is False
\* once run has returned.
C23_RunOnceOnePass ==
    InMain =>
        /\ RunReturned => ~running
        /\ (RunReturned /\ run_frame.once /\ ~run_frame.interrupted) =>
               /\ run_frame.passes = 1
               /\ run_frame.attempted = SYMBOLS
        /\ (run_frame.pc # "init" /\ run_frame.once) => run_frame.passes <= 1
        /\ (run_frame.pc \in {"finally", "returned"} /\ ~run_frame.once) =>
               run_frame.interrupted
        /\ (run_frame.pc = "sleep") => (~run_frame.once /\ running)

\* run(once=True) returned after its one pass, a failure in it included.
C23_Witness ==
    /\ RunReturned
    /\ run_frame.once
    /\ ~run_frame.interrupted
    /\ run_frame.failed
    /\ run_frame.passes = 1
    /\ ~running

\* The history get_latest_signals read.
HistoryRead == SubSeq(signals_history, 1, Val(latest_signals).at)

\* The position of the last signal of the symbol in the history.
LastOf(history, symbol) ==
    CHOOSE k \in 1..Len(history) :
        /\ history[k].symbol = symbol
        /\ \A j \in (k + 1)..Len(history) : history[j].symbol # symbol

LatestIsLast ==
    (InMain /\ ~IsNone(latest_signals)) =>
        LET list == Val(latest_signals).list
        IN  \A symbol \in Symbols :
                LET entries == {j \in 1..Len(list) : list[j].symbol = symbol}
                IN  IF \E k \in 1..Len(HistoryRead) : HistoryRead[k].symbol = symbol
                    THEN /\ Cardinality(entries) = 1
                         /\ \A j \in entries :
                                list[j] = to_dict(HistoryRead[LastOf(HistoryRead, symbol)])
                    ELSE entries = {}

AppendOnly ==
    \/ signals_history' = signals_history
    \/ /\ Len(signals_history') = Len(signals_history) + 1
       /\ SubSeq(signals_history', 1, Len(signals_history)) = signals_history

\* C24: after any sequence of analysis passes get_latest_signals returns exactly
\* one entry for each symbol that has a signal in signals_history, the signal of
\* that symbol appended last; signals_history only ever grows by appends.
C24_LatestSignals == []LatestIsLast /\ [][AppendOnly]_vars

\* Two signals of SPY and one of BTC-USD between them: the later SPY signal
\* and the BTC-USD signal are returned.
C24_Witness ==
    /\ InMain
    /\ ~IsNone(latest_signals)
    /\ Val(latest_signals).at = 3
    /\ HistoryRead = <<HistorySignal("SPY", 1), HistorySignal("BTC-USD", 2),
                       HistorySignal("SPY", 3)>>
    /\ Val(latest_signals).list = <<to_dict(HistorySignal("SPY", 3)),
                                    to_dict(HistorySignal("BTC-USD", 2))>>

\* ------------------------------------------------------------------ the update threads
\* The threads inside update_dashboard_data.
AliveThreads == {t \in Threads : update_threads[t].pc # "done"}

\* C25 (as claimed): at most one background update thread is alive at any time,
\* under every interleaving of start-updates and stop-updates requests, a stop
\* followed by a start while the old loop sleeps and two concurrent starts
\* included.
C25_AtMostOneUpdateThread ==
    InWeb => Cardinality(AliveThreads) <= 1

\* A stop-updates request was answered and the flag is still down.
Stopped ==
    /\ InWeb
    /\ ~is_running
    /\ \E n \in Pending : requests[n].route = "stop-updates" /\ requests[n].pc = "done"

\* Every thread that begins a cycle in this step found the flag up.
CycleBeginsOnlyRunning ==
    \A t \in Threads :
        (update_threads[t].pc = "while" /\ update_threads'[t].pc = "for") => is_running

\* C26: after a stop-updates request that no start-updates request follows, the
\* background update loop eventually terminates, and it begins no new update
\* cycle after the stop (a cycle in progress may finish its remaining symbols).
C26_StopEndsTheLoop ==
    /\ Stopped ~> (is_running \/ AliveThreads = {})
    /\ [][CycleBeginsOnlyRunning]_vars

\* The stop came while a thread was in a cycle: the thread finished the cycle,
\* storing an entry on the way, and ended at its next while test.
C26_Witness ==
    /\ Stopped
    /\ \A n \in Pending : requests[n].route # "start-updates"
    /\ Len(update_threads) = 1
    /\ update_threads[1].pc = "done"
    /\ update_threads[1].attempted = SYMBOLS
    /\ cache_writes["BTC-USD"] # <<>>

\* ------------------------------------------------------------------ failed updates
\* The manual updates in the model.
ManualUpdates == {n \in Pending : requests[n].route = "manual-update"}

\* The outcomes in which something failed.
Failures == {"empty", "indicators_raise", "news_raise", "signal_raise"}

\* Every update that stored an entry, the symbol's earlier ones included, met
\* none of the given outcomes.
NoStoreAfter(outcomes) ==
    /\ \A symbol \in Symbols : \A j \in 1..Len(cache_writes[symbol]) :
           cache_writes[symbol][j].outcome \notin outcomes
    /\ \A t \in Threads :
           IF update_threads[t].pc = "write"
           THEN Val(update_threads[t].locals).outcome \notin Failures
           ELSE IsNone(update_threads[t].locals)

UnknownSymbolIs404(n) ==
    requests[n].symbol \notin Symbols =>
        /\ requests[n].pc \in {"begin", "done"}
        /\ ~requests[n].wrote
        /\ requests[n].pc = "done" => requests[n].status = 404

\* C27 (as claimed): an update of a symbol, background or manual, whose fetch
\* returns no candles or in which the indicators, the news or the signal
\* generation raise leaves dashboard_data[symbol] as it was; a manual update
\* of a symbol not in dashboard_data returns 404 and changes nothing.
C27_FailedUpdateKeepsEntry ==
    InWeb =>
        /\ NoStoreAfter(Failures)
        /\ \A n \in ManualUpdates :
               /\ UnknownSymbolIs404(n)
               /\ requests[n].outcome \in Failures =>
                      /\ ~requests[n].wrote
                      /\ requests[n].pc = "done"
                      /\ requests[n].status = 500

\* C27 (amended): the same, except that a manual update in which only the news
\* raise goes on with the neutral sentiment and stores its entry.
C27_FailedUpdateKeepsEntryButNews ==
    InWeb =>
        /\ NoStoreAfter(Failures \ {"news_raise"})
        /\ \A n \in ManualUpdates :
               /\ UnknownSymbolIs404(n)
               /\ requests[n].outcome \in Failures \ {"news_raise"} =>
                      /\ ~requests[n].wrote
                      /\ requests[n].pc = "done"
                      /\ requests[n].status = 500
               /\ (requests[n].outcome = "news_raise" /\ requests[n].pc = "done") =>
                      /\ requests[n].wrote
                      /\ requests[n].status = 200
                      /\ Val(requests[n].locals).sentiment = Some(NEUTRAL_SENTIMENT)
                      /\ \E j \in 1..Len(cache_writes[requests[n].symbol]) :
                             cache_writes[requests[n].symbol][j] = Val(requests[n].locals)

\* A manual update whose signal generation raised was answered 500 and stored
\* nothing, a manual update whose news raised stored its entry with the neutral
\* sentiment, and an update thread went past a failed symbol.
C27_Witness ==
    /\ InWeb
    /\ \E n \in ManualUpdates :
           /\ requests[n].outcome = "signal_raise"
           /\ requests[n].status = 500
           /\ ~requests[n].wrote
    /\ \E n \in ManualUpdates :
           /\ requests[n].outcome = "news_raise"
           /\ requests[n].wrote
           /\ dashboard_data["SPY"].news_sentiment = Some(NEUTRAL_SENTIMENT)
    /\ \E t \in Threads : update_threads[t].failed

\* ------------------------------------------------------------------ get_signal
\* The (signal, indicators) pairs of the entries the cache has held for a symbol.
EntriesHeld(symbol) ==
    {[signal |-> InitialEntry.signal, technical_indicators |-> InitialEntry.indicators]}
    \cup {[signal |-> cache_writes[symbol][j].signal,
           technical_indicators |-> cache_writes[symbol][j].indicators] :
              j \in 1..Len(cache_writes[symbol])}

\* C28 (as claimed): the answer of /api/signal/<symbol> is a consistent
\* snapshot: its signal and its technical_indicators come from the same cache
\* entry, also when an update of the symbol runs during the request.
C28_SignalSnapshotConsistent ==
    InWeb =>
        \A n \in Pending :
            (requests[n].route = "signal" /\ requests[n].status = 200) =>
                Val(requests[n].body) \in EntriesHeld(requests[n].symbol)

\* ------------------------------------------------------------------ failures in a cycle
\* Whenever a pass or a cycle is through, every configured symbol was attempted
\* in it.
WholeCycle ==
    /\ (/\ InMain
        /\ \/ run_frame.pc = "sleep"
           \/ run_frame.pc \in {"finally", "returned"} /\ ~run_frame.interrupted)
           => run_frame.attempted = SYMBOLS
    /\ InWeb =>
           \A t \in Threads :
               /\ update_threads[t].pc = "sleep" => update_threads[t].attempted = SYMBOLS
               /\ update_threads[t].pc \in {"for", "write"} =>
                      \A j \in 1..Len(update_threads[t].attempted) :
                          update_threads[t].attempted[j] = SYMBOLS[j]

\* A loop ends only where its code says so: run by the break of once or by
\* an interrupt, an update thread at a while test that finds the flag down.
LoopEndsOnlyAtExit ==
    /\ (InMain /\ run_frame.pc # "finally" /\ run_frame'.pc = "finally") =>
           \/ run_frame'.interrupted
           \/ run_frame.once /\ run_frame.i > Len(SYMBOLS)
    /\ InWeb =>
           \A t \in Threads :
               (update_threads[t].pc # "done" /\ update_threads'[t].pc = "done") =>
                   (update_threads[t].pc = "while" /\ ~is_running)

\* C29: within one analysis or update cycle, a failure (an exception or an empty
\* fetch) while processing one symbol never keeps the remaining configured
\* symbols of the cycle from being processed, and never ends the periodic loop.
C29_FailureSkipsOneSymbol == []WholeCycle /\ [][LoopEndsOnlyAtExit]_vars

\* An update thread failed on SPY, stored BTC-USD in the same cycle, slept and
\* began the next cycle.
C29_Witness ==
    /\ InWeb
    /\ is_running
    /\ \E t \in Threads :
           /\ update_threads[t].failed
           /\ update_threads[t].pc = "for"
           /\ update_threads[t].i = 1
    /\ cache_writes["SPY"] = <<>>
    /\ Len(cache_writes["BTC-USD"]) = 1
    /\ requests = <<>>

====
